---------------------------- MODULE Spec2Model ----------------------------
(***************************************************************************)
(* A model of src/src/ConstraintGenerator.ts (consys): the constraint DSL  *)
(* compiler.  A DSL string is a sequence of one-character strings, indexed *)
(* from 0 as in the TypeScript source (charAt, substring).  The generator  *)
(* object has one field, customFunctions; every other operation is a pure  *)
(* function of its arguments and of that registry.                         *)
(***************************************************************************)
EXTENDS Integers, Sequences, FiniteSets, TLC

VARIABLES
    customFunctions,   \* the registry, in registration order
    op,                \* the operation that ran last
    arg,               \* its arguments
    ret                \* what it returned or threw

vars == <<customFunctions, op, arg, ret>>

-----------------------------------------------------------------------------
(* Characters and the string primitives of the host language               *)

Digits == {"0", "1", "2", "3", "4", "5", "6", "7", "8", "9"}

Letters ==
    {"a", "b", "c", "d", "e", "f", "g", "h", "i", "j", "k", "l", "m", "n",
     "o", "p", "q", "r", "s", "t", "u", "v", "w", "x", "y", "z",
     "A", "B", "C", "D", "E", "F", "G", "H", "I", "J", "K", "L", "M", "N",
     "O", "P", "Q", "R", "S", "T", "U", "V", "W", "X", "Y", "Z"}

\* the regular expression class \w
IsWordChar(c) == c \in Letters \cup Digits \cup {"_"}

\* the regular expression class \s
IsSpace(c) == c \in {" ", "\t", "\n"}

\* String.prototype.charAt: the empty string outside the string
charAt(s, i) == IF i >= 0 /\ i < Len(s) THEN s[i + 1] ELSE ""

Clamp(i, n) == IF i < 0 THEN 0 ELSE IF i > n THEN n ELSE i

\* String.prototype.substring(a, b): both ends clamped, swapped when a > b
substring(s, a, b) ==
    LET x == Clamp(a, Len(s))
        y == Clamp(b, Len(s))
    IN  IF x <= y THEN SubSeq(s, x + 1, y) ELSE SubSeq(s, y + 1, x)

\* String.prototype.substring(a)
substringFrom(s, a) == substring(s, a, Len(s))

startsWith(s, p) == Len(p) <= Len(s) /\ SubSeq(s, 1, Len(p)) = p

endsWith(s, p) == Len(p) <= Len(s) /\ SubSeq(s, Len(s) - Len(p) + 1, Len(s)) = p

\* String.prototype.includes for a one-character needle
includes(s, c) == \E i \in 1..Len(s) : s[i] = c

\* the least element of a non-empty set of integers
Min(S) == CHOOSE x \in S : \A y \in S : x <= y

\* String.prototype.indexOf for a one-character needle, from offset `from`
indexOfFrom(s, c, from) ==
    LET found == {i \in from..(Len(s) - 1) : s[i + 1] = c}
    IN  IF found = {} THEN -1 ELSE Min(found)

indexOf(s, c) == indexOfFrom(s, c, 0)

\* srcString.replace(/\s/g, '')
stripWhitespace(s) == SelectSeq(s, LAMBDA c : ~IsSpace(c))

RECURSIVE trimStart(_)
trimStart(s) ==
    IF s # <<>> /\ IsSpace(Head(s)) THEN trimStart(Tail(s)) ELSE s

RECURSIVE trimEnd(_)
trimEnd(s) ==
    IF s # <<>> /\ IsSpace(s[Len(s)]) THEN trimEnd(SubSeq(s, 1, Len(s) - 1)) ELSE s

\* String.prototype.trim
trim(s) == trimEnd(trimStart(s))

\* String.prototype.split for a one-character separator
RECURSIVE split(_, _)
split(s, c) ==
    LET i == indexOf(s, c)
    IN  IF i = -1 THEN <<s>>
        ELSE <<substring(s, 0, i)>> \o split(substringFrom(s, i + 1), c)

\* the concatenation of a list of strings
RECURSIVE Concat(_)
Concat(list) == IF list = <<>> THEN <<>> ELSE Head(list) \o Concat(Tail(list))

-----------------------------------------------------------------------------
(* class Symbols                                                           *)

COND_SEPARATOR == ":"
KEY_SEPARATOR == "."
ARG_SEPARATOR == ","
ALWAYS == <<"A", "L", "W", "A", "Y", "S">>
WHEN == <<"W", "H", "E", "N">>
MODEL_PREFIX == "$"
STATE_PREFIX == "#"
STRING_SYMBOL == "'"
BRACKET_OPEN == "("
BRACKET_CLOSE == ")"

\* the 15 operator and bracket symbols
OperatorSymbols ==
    {<<"<">>, <<"<", "=">>, <<"=", "=">>, <<"!", "=">>, <<">", "=">>, <<">">>,
     <<"+">>, <<"-">>, <<"*">>, <<"/">>, <<"%">>, <<"(">>, <<")">>,
     <<"&", "&">>, <<"|", "|">>}

\* Symbols.OPERATOR_START: the first character of each operator symbol
OPERATOR_START == {sym[1] : sym \in OperatorSymbols}

-----------------------------------------------------------------------------
(* What an operation hands back: a value, or the error it threw            *)

Returned(v) == [ok |-> TRUE, val |-> v, err |-> "none", index |-> -1]

\* `index` is the character index the error message carries, -1 when the
\* message carries none
Thrown(kind, i) == [ok |-> FALSE, val |-> <<>>, err |-> kind, index |-> i]

-----------------------------------------------------------------------------
(* Values of the host language that models, states and function results    *)
(* hold: undefined, numbers, strings and objects (a function from keys to  *)
(* values).                                                                *)

Undefined == [t |-> "undefined", v |-> 0]
Num(n) == [t |-> "num", v |-> n]
Text(s) == [t |-> "str", v |-> s]
Bool(b) == [t |-> "bool", v |-> b]
Object(fields) == [t |-> "obj", v |-> fields]

\* the string 'UNDEFINED_VALUE' that getObjectValue returns from its catch
UNDEFINED_VALUE ==
    Text(<<"U", "N", "D", "E", "F", "I", "N", "E", "D", "_", "V", "A", "L", "U", "E">>)

S_length == <<"l", "e", "n", "g", "t", "h">>

\* value[key]: a property read.  Reading a property of undefined throws a
\* TypeError; an object gives the property or undefined; a string has its
\* length; a number or boolean has no own property.
PropertyThrows(value) == value.t = "undefined"

Property(value, key) ==
    CASE value.t = "obj" ->
            IF key \in DOMAIN value.v THEN value.v[key] ELSE Undefined
      [] value.t = "str" ->
            IF key = S_length THEN Num(Len(value.v)) ELSE Undefined
      [] OTHER -> Undefined

\* the loop of getObjectValue: [threw, val]
RECURSIVE WalkKeys(_, _)
WalkKeys(value, keys) ==
    IF keys = <<>> THEN [threw |-> FALSE, val |-> value]
    ELSE IF PropertyThrows(value) THEN [threw |-> TRUE, val |-> Undefined]
    ELSE WalkKeys(Property(value, Head(keys)), Tail(keys))

getObjectValue(object, keyChain) ==
    IF keyChain = <<>> THEN object
    ELSE LET walk == WalkKeys(object, split(keyChain, KEY_SEPARATOR))
         IN  IF walk.threw THEN UNDEFINED_VALUE ELSE walk.val

-----------------------------------------------------------------------------
(* The function registry                                                   *)

Range(seq) == {seq[i] : i \in 1..Len(seq)}

\* registerFunction without its duplicate check
registerFunction_NoCheck(fns, name) ==
    [fns |-> Append(fns, name), ret |-> Returned(<<>>)]

\* registerFunction on the registry `fns`: the registry after the call and
\* the outcome of the call
registerFunction(fns, name) ==
    IF name \in Range(fns)
    THEN [fns |-> fns, ret |-> Thrown("AlreadyRegistered", -1)]
    ELSE [fns |-> Append(fns, name), ret |-> Returned(<<>>)]

\* isFunctionToken: some registered name is a prefix of the token
isFunctionToken(fns, token) ==
    \E i \in 1..Len(fns) : startsWith(token, fns[i])

isStatementToken(fns, token) ==
    /\ isFunctionToken(fns, token)
    /\ ~includes(token, "(")
    /\ ~includes(token, ")")

-----------------------------------------------------------------------------
(* Splitting an assertion into activation and condition                    *)

\* the number of string symbols of s at the indices i, i+1, ...
RECURSIVE CountStringSymbols(_, _)
CountStringSymbols(s, i) ==
    IF i >= Len(s) THEN 0
    ELSE (IF charAt(s, i) = STRING_SYMBOL THEN 1 ELSE 0) + CountStringSymbols(s, i + 1)

isCharWithinString(srcString, charIndex) ==
    IF \/ charIndex = 0
       \/ charIndex = Len(srcString) - 1
       \/ charAt(srcString, charIndex) = STRING_SYMBOL
    THEN FALSE
    ELSE CountStringSymbols(srcString, charIndex + 1) % 2 = 1

\* the loop of getSplitTokens: the first separator that isCharWithinString
\* does not place inside a string, -1 when there is none
RECURSIVE SplitIndexFrom(_, _)
SplitIndexFrom(srcString, i) ==
    IF i >= Len(srcString) THEN -1
    ELSE IF /\ charAt(srcString, i) = COND_SEPARATOR
            /\ ~isCharWithinString(srcString, i)
         THEN i
         ELSE SplitIndexFrom(srcString, i + 1)

getSplitTokens(srcString) ==
    LET splitIndex == SplitIndexFrom(srcString, 0)
    IN  IF splitIndex = -1
        THEN Thrown("InvalidSyntaxForToken", -1)
        ELSE Returned(<<substring(srcString, 0, splitIndex),
                        substringFrom(srcString, splitIndex + 1)>>)

-----------------------------------------------------------------------------
(* The expression tokenizer: the end index of the token that starts at     *)
(* startIndex.  Each function returns its argument endIndex when its loop  *)
(* finds no end.                                                           *)

RECURSIVE DataAccessEndFrom(_, _, _)
DataAccessEndFrom(trimmed, i, endIndex) ==
    IF i >= Len(trimmed) THEN endIndex
    ELSE IF i = Len(trimmed) - 1 THEN i + 1
    ELSE IF ~(IsWordChar(charAt(trimmed, i)) \/ charAt(trimmed, i) = ".") THEN i
    ELSE DataAccessEndFrom(trimmed, i + 1, endIndex)

getDataAccessEndIndex(trimmed, startIndex, endIndex) ==
    DataAccessEndFrom(trimmed, startIndex + 1, endIndex)

RECURSIVE StringEndFrom(_, _, _)
StringEndFrom(trimmed, i, endIndex) ==
    IF i >= Len(trimmed) THEN endIndex
    ELSE IF charAt(trimmed, i) = STRING_SYMBOL THEN i + 1
    ELSE StringEndFrom(trimmed, i + 1, endIndex)

getStringEndIndex(trimmed, startIndex, endIndex) ==
    StringEndFrom(trimmed, startIndex + 1, endIndex)

RECURSIVE NumberEndFrom(_, _, _)
NumberEndFrom(trimmed, i, endIndex) ==
    IF i >= Len(trimmed) THEN endIndex
    ELSE IF i = Len(trimmed) - 1 THEN i + 1
    ELSE IF ~(charAt(trimmed, i) \in Digits \/ charAt(trimmed, i) = ".") THEN i
    ELSE NumberEndFrom(trimmed, i + 1, endIndex)

getNumberEndIndex(trimmed, startIndex, endIndex) ==
    NumberEndFrom(trimmed, startIndex, endIndex)

RECURSIVE StatementEndFrom(_, _, _)
StatementEndFrom(trimmed, i, endIndex) ==
    IF i >= Len(trimmed) THEN endIndex
    ELSE IF i = Len(trimmed) - 1 THEN i + 1
    ELSE IF ~IsWordChar(charAt(trimmed, i)) THEN i
    ELSE StatementEndFrom(trimmed, i + 1, endIndex)

getStatementEndIndex(trimmed, startIndex, endIndex) ==
    StatementEndFrom(trimmed, startIndex + 1, endIndex)

\* the loop of getFunctionEndIndex: [end, foundFirst] when it stops
RECURSIVE FunctionEndFrom(_, _, _, _, _)
FunctionEndFrom(trimmed, i, endIndex, numBrackets, foundFirst) ==
    IF i >= Len(trimmed) THEN [end |-> endIndex, foundFirst |-> foundFirst]
    ELSE LET endChar == charAt(trimmed, i)
             n == IF endChar = "(" THEN numBrackets + 1
                  ELSE IF endChar = ")" THEN numBrackets - 1
                  ELSE numBrackets
             f == foundFirst \/ endChar = "("
         IN  IF f /\ n = 0 THEN [end |-> i + 1, foundFirst |-> f]
             ELSE IF n = 0 /\ ~IsWordChar(endChar) THEN [end |-> i, foundFirst |-> TRUE]
             ELSE FunctionEndFrom(trimmed, i + 1, endIndex, n, f)

getFunctionEndIndex(trimmed, startIndex, endIndex) ==
    LET scan == FunctionEndFrom(trimmed, startIndex + 1, endIndex, 0, FALSE)
    IN  IF ~scan.foundFirst
        THEN getStatementEndIndex(trimmed, startIndex, endIndex)
        ELSE scan.end

getOperatorEndIndex(trimmed, startChar, startIndex, endIndex) ==
    IF startChar \in {"<", ">", "!", "="}
    THEN startIndex + (IF charAt(trimmed, startIndex + 1) = "=" THEN 2 ELSE 1)
    ELSE IF startChar \in {"&", "|"}
    THEN startIndex + 2
    ELSE IF startChar \in {"(", ")", "+", "-", "*", "/", "%"}
    THEN startIndex + 1
    ELSE endIndex

\* the iteration cap of generateConditionalString
MaxParsingIterations == 1000

\* the end index generateConditionalString computes for the token at
\* startIndex (endIndex = startIndex at the top of every iteration), or -1
\* when no branch takes the character ('Unable to parse statement')
TokenEndIndex(fns, trimmed, startIndex) ==
    LET startChar == charAt(trimmed, startIndex)
    IN  IF startChar \in {MODEL_PREFIX, STATE_PREFIX}
        THEN getDataAccessEndIndex(trimmed, startIndex, startIndex)
        ELSE IF startChar = STRING_SYMBOL
        THEN getStringEndIndex(trimmed, startIndex, startIndex)
        ELSE IF startChar \in Digits
        THEN getNumberEndIndex(trimmed, startIndex, startIndex)
        ELSE IF isFunctionToken(fns, substringFrom(trimmed, startIndex))
        THEN getFunctionEndIndex(trimmed, startIndex, startIndex)
        ELSE IF startChar \in OPERATOR_START
        THEN getOperatorEndIndex(trimmed, startChar, startIndex, startIndex)
        ELSE -1

\* the while loop of generateConditionalString.  An iteration that leaves
\* endIndex = startIndex inside the string repeats itself unchanged (it
\* pushes an empty token) until the iteration cap throws, so it is taken
\* to the cap's error at once.
RECURSIVE TokenLoop(_, _, _, _, _)
TokenLoop(fns, trimmed, startIndex, tokens, iterations) ==
    IF startIndex >= Len(trimmed) /\ trimmed = <<>>
    THEN Thrown("TypeError", -1)     \* trimmed[0] is undefined: startChar.match throws
    ELSE LET endIndex == TokenEndIndex(fns, trimmed, startIndex)
             pushed == Append(tokens, substring(trimmed, startIndex, endIndex))
         IN  IF endIndex = -1 THEN Thrown("UnableToParse", startIndex)
             ELSE IF endIndex = startIndex THEN Thrown("MaxIterations", -1)
             ELSE IF iterations > MaxParsingIterations THEN Thrown("MaxIterations", -1)
             ELSE IF endIndex >= Len(trimmed) THEN Returned(pushed)
             ELSE TokenLoop(fns, trimmed, endIndex, pushed, iterations + 1)

\* the tokens generateConditionalString hands to getStringFromTokens
ExpressionTokens(fns, data) == TokenLoop(fns, stripWhitespace(data), 0, <<>>, 0)

-----------------------------------------------------------------------------
(* The expression compiler: from tokens to the text of a host expression   *)

\* the loop of getSubstringWithinParentheses: the index of the bracket that
\* closes the one before bracketStart, bracketStart when there is none
RECURSIVE BracketEndFrom(_, _, _, _)
BracketEndFrom(srcString, i, bracketStart, numBracketsOpened) ==
    IF i >= Len(srcString) THEN bracketStart
    ELSE IF charAt(srcString, i) = BRACKET_OPEN
    THEN BracketEndFrom(srcString, i + 1, bracketStart, numBracketsOpened + 1)
    ELSE IF charAt(srcString, i) = BRACKET_CLOSE
    THEN IF numBracketsOpened > 0
         THEN BracketEndFrom(srcString, i + 1, bracketStart, numBracketsOpened - 1)
         ELSE i
    ELSE BracketEndFrom(srcString, i + 1, bracketStart, numBracketsOpened)

getSubstringWithinParentheses(srcString) ==
    LET bracketStart == indexOf(srcString, BRACKET_OPEN) + 1
        bracketEnd == BracketEndFrom(srcString, bracketStart, bracketStart, 0)
    IN  substring(srcString, bracketStart, bracketEnd)

\* the regular expression of isNumberString, /[+-]?([0-9]*[.])?[0-9]+/, is
\* not anchored: it matches exactly the strings that hold a digit
isNumberString(string) == \E i \in 1..Len(string) : string[i] \in Digits

\* the backtick character, written by name
BACKTICK == "BACKTICK"

isString(string) ==
    /\ startsWith(string, <<STRING_SYMBOL>>)
    /\ endsWith(string, <<STRING_SYMBOL>>)
    /\ ~includes(string, BACKTICK)

isModelVariable(string) == startsWith(string, <<MODEL_PREFIX>>)

isStateVariable(string) == startsWith(string, <<STATE_PREFIX>>)

\* the loop of getFunctionArgs
RECURSIVE FunctionArgsFrom(_, _, _, _, _)
FunctionArgsFrom(trimmed, i, startIndex, numBrackets, res) ==
    IF i >= Len(trimmed) THEN res
    ELSE LET char == charAt(trimmed, i)
             last == (i = Len(trimmed) - 1)
         IN  IF char = BRACKET_OPEN
             THEN FunctionArgsFrom(trimmed, i + 1, startIndex, numBrackets + 1, res)
             ELSE IF char = BRACKET_CLOSE
             THEN FunctionArgsFrom(trimmed, i + 1, startIndex, numBrackets - 1,
                      IF numBrackets - 1 = 0 /\ last
                      THEN Append(res, substring(trimmed, startIndex, i + 1))
                      ELSE res)
             ELSE IF (char = ARG_SEPARATOR \/ last) /\ numBrackets = 0
             THEN FunctionArgsFrom(trimmed, i + 1, i + 1, numBrackets,
                      Append(res, substring(trimmed, startIndex,
                                            IF last THEN i + 1 ELSE i)))
             ELSE FunctionArgsFrom(trimmed, i + 1, startIndex, numBrackets, res)

getFunctionArgs(argString) ==
    FunctionArgsFrom(stripWhitespace(argString), 0, 0, 0, <<>>)

S_thisModel == <<"t", "h", "i", "s", ".", "m", "o", "d", "e", "l">>
S_thisState == <<"t", "h", "i", "s", ".", "s", "t", "a", "t", "e">>
S_functionsOpen == <<"t", "h", "i", "s", ".", "f", "u", "n", "c", "t", "i", "o", "n", "s", "[", "'">>
S_functionsClose == <<"'", "]">>
S_statementArgs == <<"(", "t", "h", "i", "s", ".", "m", "o", "d", "e", "l", ",", " ", "t", "h", "i", "s", ".", "s", "t", "a", "t", "e", ")">>
S_activationArgs == <<"(", "t", "h", "i", "s", ".", "m", "o", "d", "e", "l", ",", "t", "h", "i", "s", ".", "s", "t", "a", "t", "e", ")">>

\* the arguments of a call joined with ','
RECURSIVE JoinArgs(_)
JoinArgs(symbols) ==
    IF symbols = <<>> THEN <<>>
    ELSE IF Len(symbols) = 1 THEN symbols[1]
    ELSE symbols[1] \o <<",">> \o JoinArgs(Tail(symbols))

RECURSIVE getSymbolForToken(_, _)
RECURSIVE parseFunctionToken(_, _)

getSymbolForToken(fns, token) ==
    IF isModelVariable(token)
    THEN IF Len(token) = 1 THEN S_thisModel ELSE S_thisModel \o <<".">> \o Tail(token)
    ELSE IF isStateVariable(token)
    THEN IF Len(token) = 1 THEN S_thisState ELSE S_thisState \o <<".">> \o Tail(token)
    ELSE IF isStatementToken(fns, token)
    THEN S_functionsOpen \o token \o S_functionsClose \o S_statementArgs
    ELSE IF isFunctionToken(fns, token)
    THEN parseFunctionToken(fns, token)
    ELSE IF isString(token) THEN token
    ELSE IF isNumberString(token) THEN token
    ELSE IF token \in OperatorSymbols THEN token
    ELSE <<>>

parseFunctionToken(fns, token) ==
    LET funName == split(token, "(")[1]
        argString == getSubstringWithinParentheses(token)
        args == getFunctionArgs(argString)
        argSymbols == JoinArgs([i \in 1..Len(args) |-> getSymbolForToken(fns, args[i])])
    IN  S_functionsOpen \o funName \o S_functionsClose \o <<"(">> \o argSymbols \o <<")">>

getStringFromTokens(fns, tokens) ==
    Concat([i \in 1..Len(tokens) |-> getSymbolForToken(fns, tokens[i])])

generateConditionalString(fns, data) ==
    LET tokens == ExpressionTokens(fns, data)
    IN  IF tokens.ok THEN Returned(getStringFromTokens(fns, tokens.val)) ELSE tokens

\* the variables of generateConditionalString's while loop before its first
\* iteration
WhileStart(data) ==
    [data |-> data, trimmed |-> stripWhitespace(data), tokens |-> <<>>,
     startIndex |-> 0, iterations |-> 0]

\* one iteration of the while loop without the check of the iteration cap
WhileIteration_NoCap(fns, loop) ==
    IF loop.startIndex >= Len(loop.trimmed)
    THEN [loop |-> loop, done |-> TRUE, ret |-> Thrown("TypeError", -1)]
    ELSE LET endIndex == TokenEndIndex(fns, loop.trimmed, loop.startIndex)
             next == [loop EXCEPT
                         !.tokens = Append(@, substring(loop.trimmed, loop.startIndex, endIndex)),
                         !.startIndex = endIndex,
                         !.iterations = @ + 1]
         IN  IF endIndex = -1
             THEN [loop |-> loop, done |-> TRUE,
                   ret |-> Thrown("UnableToParse", loop.startIndex)]
             ELSE IF endIndex >= Len(loop.trimmed)
             THEN [loop |-> next, done |-> TRUE,
                   ret |-> Returned(getStringFromTokens(fns, next.tokens))]
             ELSE [loop |-> next, done |-> FALSE, ret |-> Returned(<<>>)]

\* one iteration of the while loop of generateConditionalString on the
\* loop's variables: the variables after it, whether the loop is left, and
\* the outcome of generateConditionalString when it is.  With an empty
\* string trimmed[0] is undefined and startChar.match throws a TypeError.
WhileIteration(fns, loop) ==
    IF loop.startIndex >= Len(loop.trimmed)
    THEN [loop |-> loop, done |-> TRUE, ret |-> Thrown("TypeError", -1)]
    ELSE LET endIndex == TokenEndIndex(fns, loop.trimmed, loop.startIndex)
             next == [loop EXCEPT
                         !.tokens = Append(@, substring(loop.trimmed, loop.startIndex, endIndex)),
                         !.startIndex = endIndex,
                         !.iterations = @ + 1]
         IN  IF endIndex = -1
             THEN [loop |-> loop, done |-> TRUE,
                   ret |-> Thrown("UnableToParse", loop.startIndex)]
             ELSE IF loop.iterations > MaxParsingIterations
             THEN [loop |-> next, done |-> TRUE, ret |-> Thrown("MaxIterations", -1)]
             ELSE IF endIndex >= Len(loop.trimmed)
             THEN [loop |-> next, done |-> TRUE,
                   ret |-> Returned(getStringFromTokens(fns, next.tokens))]
             ELSE [loop |-> next, done |-> FALSE, ret |-> Returned(<<>>)]

-----------------------------------------------------------------------------
(* The host language.  generateFunction hands the text it built to         *)
(* FunctionGenerator.generateFromString, which makes a function of it; the *)
(* function is later called with `this` bound to the constraint's model,   *)
(* state and function table.  What follows reads that text as the host     *)
(* language does: a lexer, a parser by operator precedence and an          *)
(* evaluator over undefined, NaN, numbers, strings, booleans, objects and  *)
(* functions.  A construct outside this fragment (a decimal literal, an    *)
(* assignment, a regular expression, ...) gives the outcome "Unsupported". *)

NaN == [t |-> "nan", v |-> 0]

\* a function of the caller's table: it returns a constant, or its first
\* argument
Fn(behaviour) == [t |-> "fn", v |-> behaviour]
ConstFn(value) == Fn([kind |-> "const", val |-> value])
FirstArgFn == Fn([kind |-> "first", val |-> Undefined])

IsIdentStart(c) == c \in Letters \cup {"_", "$"}
IsIdentPart(c) == c \in Letters \cup Digits \cup {"_", "$"}
OperatorChars == {"+", "-", "*", "/", "%", "<", ">", "=", "!", "&", "|"}
Punctuators == {"(", ")", "{", "}", "[", "]", ";", ",", "."}
TwoCharOperators ==
    {<<"=", "=">>, <<"!", "=">>, <<"<", "=">>, <<">", "=">>, <<"&", "&">>, <<"|", "|">>}

DigitValue(c) ==
    CASE c = "0" -> 0 [] c = "1" -> 1 [] c = "2" -> 2 [] c = "3" -> 3 [] c = "4" -> 4
      [] c = "5" -> 5 [] c = "6" -> 6 [] c = "7" -> 7 [] c = "8" -> 8 [] c = "9" -> 9

RECURSIVE DigitsValue(_)
DigitsValue(s) ==
    IF s = <<>> THEN 0 ELSE 10 * DigitsValue(SubSeq(s, 1, Len(s) - 1)) + DigitValue(s[Len(s)])

DigitChar(d) == <<"0", "1", "2", "3", "4", "5", "6", "7", "8", "9">>[d + 1]

RECURSIVE NatText(_)
NatText(n) == IF n < 10 THEN <<DigitChar(n)>> ELSE NatText(n \div 10) \o <<DigitChar(n % 10)>>

\* the first index from i on whose character is not in `class`
RunEnd(text, i, class) ==
    Min({j \in i..Len(text) : j = Len(text) \/ ~(text[j + 1] \in class)})

\* the lexical element at index i: its kind ("space", "num", "str", "id",
\* "p" for punctuators and operators, or the error it is), its text and the
\* index after it
LexAt(text, i) ==
    LET c == charAt(text, i)
        two == substring(text, i, i + 2)
        Element(kind, s, e) == [k |-> kind, s |-> s, e |-> e]
        Failure(kind) == [k |-> kind, s |-> <<>>, e |-> Len(text)]
    IN  CASE IsSpace(c) -> Element("space", <<>>, i + 1)
          [] c \in Digits ->
                LET e == RunEnd(text, i, Digits)
                IN  IF \/ charAt(text, e) \in {".", "e", "E", "x", "X", "b", "B", "o", "O", "n"}
                       \/ (c = "0" /\ e > i + 1)
                    THEN Failure("Unsupported")
                    ELSE IF IsIdentStart(charAt(text, e)) THEN Failure("SyntaxError")
                    ELSE Element("num", substring(text, i, e), e)
          [] c = "'" ->
                LET e == indexOfFrom(text, "'", i + 1)
                IN  IF e = -1 THEN Failure("SyntaxError")
                    ELSE Element("str", substring(text, i + 1, e), e + 1)
          [] IsIdentStart(c) ->
                LET e == RunEnd(text, i, Letters \cup Digits \cup {"_", "$"})
                IN  Element("id", substring(text, i, e), e)
          [] c \in Punctuators ->
                IF c = "." /\ charAt(text, i + 1) \in Digits THEN Failure("Unsupported")
                ELSE Element("p", <<c>>, i + 1)
          [] c \in OperatorChars ->
                IF two \in TwoCharOperators
                THEN IF charAt(text, i + 2) = "=" THEN Failure("Unsupported")
                     ELSE Element("p", two, i + 2)
                ELSE IF c = "=" \/ charAt(text, i + 1) = "="
                        \/ (Len(two) = 2 /\ two[1] = two[2])
                        \/ two = <<"/", "*">>
                     THEN Failure("Unsupported")
                     ELSE Element("p", <<c>>, i + 1)
          [] OTHER -> Failure("SyntaxError")

\* the indices at which the next `count` lexical elements from i on start,
\* and the index after them
RECURSIVE LexRun(_, _, _, _)
LexRun(text, i, starts, count) ==
    IF i >= Len(text) \/ count = 0 THEN [i |-> i, starts |-> starts]
    ELSE LexRun(text, LexAt(text, i).e, Append(starts, i), count - 1)

\* the indices at which the lexical elements of the text start, up to its
\* first error; the text is read a run of elements at a time
LexRunLength == 12
RECURSIVE LexStarts(_, _, _)
LexStarts(text, i, starts) ==
    IF i >= Len(text) THEN starts
    ELSE LET run == LexRun(text, i, starts, LexRunLength)
         IN  LexStarts(text, run.i, run.starts)

\* the lexer: the tokens of the text, or the text's lexical error
JsLex(text) ==
    LET starts == LexStarts(text, 0, <<>>)
        lexed == [n \in 1..Len(starts) |-> LexAt(text, starts[n])]
        failed == {n \in 1..Len(starts) : lexed[n].k \in {"Unsupported", "SyntaxError"}}
        IsToken(element) == element.k # "space"
        kept == SelectSeq(lexed, IsToken)
    IN  IF failed # {}
        THEN LET n == CHOOSE n \in failed : TRUE IN Thrown(lexed[n].k, starts[n])
        ELSE Returned([n \in 1..Len(kept) |-> [k |-> kept[n].k, s |-> kept[n].s]])

\* the precedence level of a binary operator, loosest first; 0 for any
\* other text
OperatorLevel(o) ==
    CASE o = <<"|", "|">> -> 1
      [] o = <<"&", "&">> -> 2
      [] o = <<"|">> -> 3
      [] o = <<"&">> -> 4
      [] o \in {<<"=", "=">>, <<"!", "=">>} -> 5
      [] o \in {<<"<">>, <<"<", "=">>, <<">">>, <<">", "=">>} -> 6
      [] o \in {<<"+">>, <<"-">>} -> 7
      [] o \in {<<"*">>, <<"/">>, <<"%">>} -> 8
      [] OTHER -> 0

NoToken == [k |-> "end", s |-> <<>>]
TokenAt(toks, pos) == IF pos >= 1 /\ pos <= Len(toks) THEN toks[pos] ELSE NoToken
IsPunct(toks, pos, s) == TokenAt(toks, pos) = [k |-> "p", s |-> s]
IsWord(toks, pos, s) == TokenAt(toks, pos) = [k |-> "id", s |-> s]

Parsed(node, pos) == [ok |-> TRUE, node |-> node, pos |-> pos, err |-> "none"]
ParseError(kind) == [ok |-> FALSE, node |-> <<>>, pos |-> 0, err |-> kind]

RECURSIVE ParseBinary(_, _, _)
RECURSIVE ParseBinaryRest(_, _, _)
RECURSIVE ParseUnary(_, _)
RECURSIVE ParsePostfixRest(_, _)
RECURSIVE ParseArguments(_, _, _)

\* an expression at pos whose binary operators are of minLevel or tighter,
\* every operator associating to the left
ParseBinary(toks, pos, minLevel) ==
    ParseBinaryRest(toks, ParseUnary(toks, pos), minLevel)

ParseBinaryRest(toks, left, minLevel) ==
    IF ~left.ok THEN left
    ELSE LET tok == TokenAt(toks, left.pos)
             level == IF tok.k = "p" THEN OperatorLevel(tok.s) ELSE 0
         IN  IF level > 0 /\ level >= minLevel
             THEN LET right == ParseBinary(toks, left.pos + 1, level + 1)
                  IN  IF ~right.ok THEN right
                      ELSE ParseBinaryRest(toks,
                               Parsed([k |-> "bin", o |-> tok.s, l |-> left.node, r |-> right.node],
                                      right.pos),
                               minLevel)
             ELSE left

ParseExpression(toks, pos) == ParseBinary(toks, pos, 1)

ParsePrimary(toks, pos) ==
    LET tok == TokenAt(toks, pos)
    IN  CASE tok.k = "num" -> Parsed([k |-> "num", n |-> DigitsValue(tok.s)], pos + 1)
          [] tok.k = "str" -> Parsed([k |-> "str", s |-> tok.s], pos + 1)
          [] tok.k = "id" ->
                IF tok.s \in {<<"i", "f">>, <<"e", "l", "s", "e">>, <<"r", "e", "t", "u", "r", "n">>}
                THEN ParseError("SyntaxError")
                ELSE Parsed([k |-> "id", s |-> tok.s], pos + 1)
          [] tok.k = "p" /\ tok.s = <<"(">> ->
                LET inner == ParseExpression(toks, pos + 1)
                IN  IF ~inner.ok THEN inner
                    ELSE IF IsPunct(toks, inner.pos, <<")">>)
                    THEN Parsed(inner.node, inner.pos + 1)
                    ELSE IF IsPunct(toks, inner.pos, <<",">>)
                    THEN ParseError("Unsupported")
                    ELSE ParseError("SyntaxError")
          [] tok.k = "p" /\ tok.s \in {<<"{">>, <<"[">>, <<"/">>} -> ParseError("Unsupported")
          [] OTHER -> ParseError("SyntaxError")

ParseUnary(toks, pos) ==
    LET tok == TokenAt(toks, pos)
    IN  IF tok.k = "p" /\ tok.s \in {<<"-">>, <<"+">>, <<"!">>}
        THEN LET operand == ParseUnary(toks, pos + 1)
             IN  IF ~operand.ok THEN operand
                 ELSE Parsed([k |-> "un", o |-> tok.s, e |-> operand.node], operand.pos)
        ELSE ParsePostfixRest(toks, ParsePrimary(toks, pos))

\* the arguments of a call, pos after "(" or after a ","
ParseArguments(toks, pos, args) ==
    IF args = <<>> /\ IsPunct(toks, pos, <<")">>)
    THEN [ok |-> TRUE, node |-> args, pos |-> pos + 1, err |-> "none"]
    ELSE LET a == ParseExpression(toks, pos)
         IN  IF ~a.ok THEN a
             ELSE IF IsPunct(toks, a.pos, <<",">>)
             THEN ParseArguments(toks, a.pos + 1, Append(args, a.node))
             ELSE IF IsPunct(toks, a.pos, <<")">>)
             THEN [ok |-> TRUE, node |-> Append(args, a.node), pos |-> a.pos + 1, err |-> "none"]
             ELSE ParseError("SyntaxError")

\* member reads, index reads and calls after a primary expression
ParsePostfixRest(toks, left) ==
    IF ~left.ok THEN left
    ELSE IF IsPunct(toks, left.pos, <<".">>)
    THEN IF TokenAt(toks, left.pos + 1).k = "id"
         THEN ParsePostfixRest(toks,
                  Parsed([k |-> "get", e |-> left.node,
                          key |-> [k |-> "str", s |-> TokenAt(toks, left.pos + 1).s]],
                         left.pos + 2))
         ELSE ParseError("SyntaxError")
    ELSE IF IsPunct(toks, left.pos, <<"[">>)
    THEN LET key == ParseExpression(toks, left.pos + 1)
         IN  IF ~key.ok THEN key
             ELSE IF IsPunct(toks, key.pos, <<"]">>)
             THEN ParsePostfixRest(toks,
                      Parsed([k |-> "get", e |-> left.node, key |-> key.node], key.pos + 1))
             ELSE ParseError("SyntaxError")
    ELSE IF IsPunct(toks, left.pos, <<"(">>)
    THEN LET args == ParseArguments(toks, left.pos + 1, <<>>)
         IN  IF ~args.ok THEN args
             ELSE ParsePostfixRest(toks,
                      Parsed([k |-> "call", e |-> left.node, args |-> args.node], args.pos))
    ELSE left

\* the statement generateFunction builds:
\*   if ( activation ) { return condition ; } else { return otherwise ; }
\* read as the host parser reads it, by its grammar and not by the places
\* of the template
RECURSIVE ExpectAll(_, _, _)
ExpectAll(toks, pos, words) ==
    IF words = <<>> THEN TRUE
    ELSE /\ TokenAt(toks, pos).s = Head(words)
         /\ TokenAt(toks, pos).k \in {"p", "id"}
         /\ ExpectAll(toks, pos + 1, Tail(words))

ParseFunctionBody(toks) ==
    IF ~ExpectAll(toks, 1, <<<<"i", "f">>, <<"(">>>>) THEN ParseError("SyntaxError")
    ELSE LET a == ParseExpression(toks, 3)
         IN  IF ~a.ok THEN a
             ELSE IF ~ExpectAll(toks, a.pos, <<<<")">>, <<"{">>, <<"r", "e", "t", "u", "r", "n">>>>)
             THEN ParseError("SyntaxError")
             ELSE LET c == ParseExpression(toks, a.pos + 3)
                  IN  IF ~c.ok THEN c
                      ELSE IF ~ExpectAll(toks, c.pos,
                                  <<<<";">>, <<"}">>, <<"e", "l", "s", "e">>, <<"{">>, <<"r", "e", "t", "u", "r", "n">>>>)
                      THEN ParseError("SyntaxError")
                      ELSE LET o == ParseExpression(toks, c.pos + 5)
                           IN  IF ~o.ok THEN o
                               ELSE IF /\ ExpectAll(toks, o.pos, <<<<";">>, <<"}">>>>)
                                       /\ o.pos + 1 = Len(toks)
                               THEN Parsed([k |-> "if", a |-> a.node, c |-> c.node, o |-> o.node], 0)
                               ELSE ParseError("SyntaxError")

\* FunctionGenerator.generateFromString: the function of the text, or the
\* syntax error the host raises for it
generateFromString(functionString) ==
    LET toks == JsLex(functionString)
    IN  IF ~toks.ok THEN Thrown(toks.err, -1)
        ELSE LET body == ParseFunctionBody(toks.val)
             IN  IF body.ok THEN Returned(functionString) ELSE Thrown(body.err, -1)

\* the tree of an expression text
ParseExpressionText(text) ==
    LET toks == JsLex(text)
    IN  IF ~toks.ok THEN ParseError(toks.err)
        ELSE LET e == ParseExpression(toks.val, 1)
             IN  IF ~e.ok THEN e
                 ELSE IF e.pos = Len(toks.val) + 1 THEN e ELSE ParseError("SyntaxError")

\* a value the fragment cannot compute (a fraction, Infinity, an object
\* compared by identity, ...)
Unsupported == [t |-> "unsupported", v |-> 0]

Truthy(value) ==
    CASE value.t \in {"undefined", "nan"} -> FALSE
      [] value.t = "num" -> value.v # 0
      [] value.t = "str" -> value.v # <<>>
      [] value.t = "bool" -> value.v
      [] OTHER -> TRUE

ToNumber(value) ==
    CASE value.t \in {"num", "nan", "unsupported"} -> value
      [] value.t = "undefined" -> NaN
      [] value.t = "bool" -> Num(IF value.v THEN 1 ELSE 0)
      [] value.t = "str" ->
            IF \A i \in 1..Len(value.v) : IsSpace(value.v[i]) THEN Num(0)
            ELSE IF \A i \in 1..Len(value.v) : value.v[i] \in Digits
            THEN Num(DigitsValue(value.v))
            ELSE IF \A i \in 1..Len(value.v) : value.v[i] \notin Digits \cup {"I"}
            THEN NaN
            ELSE Unsupported
      [] OTHER -> Unsupported

ToText(value) ==
    CASE value.t = "str" -> value
      [] value.t = "num" ->
            Text(IF value.v < 0 THEN <<"-">> \o NatText(0 - value.v) ELSE NatText(value.v))
      [] value.t = "bool" -> Text(IF value.v THEN <<"t", "r", "u", "e">> ELSE <<"f", "a", "l", "s", "e">>)
      [] value.t = "undefined" -> Text(<<"u", "n", "d", "e", "f", "i", "n", "e", "d">>)
      [] value.t = "nan" -> Text(<<"N", "a", "N">>)
      [] value.t = "obj" -> Text(<<"[", "o", "b", "j", "e", "c", "t", " ", "O", "b", "j", "e", "c", "t", "]">>)
      [] OTHER -> Unsupported

Abs(n) == IF n < 0 THEN 0 - n ELSE n

RECURSIVE BitOp(_, _, _)
BitOp(o, a, b) ==
    IF a = 0 /\ b = 0 THEN 0
    ELSE LET x == a % 2
             y == b % 2
             bit == IF o = "&" THEN (IF x = 1 /\ y = 1 THEN 1 ELSE 0)
                    ELSE (IF x = 1 \/ y = 1 THEN 1 ELSE 0)
         IN  bit + 2 * BitOp(o, a \div 2, b \div 2)

Arithmetic(o, a, b) ==
    LET x == ToNumber(a)
        y == ToNumber(b)
    IN  IF x.t = "unsupported" \/ y.t = "unsupported" THEN Unsupported
        ELSE IF o \in {"&", "|"}
        THEN LET m == IF x.t = "nan" THEN 0 ELSE x.v
                 n == IF y.t = "nan" THEN 0 ELSE y.v
             IN  IF m < 0 \/ n < 0 THEN Unsupported ELSE Num(BitOp(o, m, n))
        ELSE IF x.t = "nan" \/ y.t = "nan" THEN NaN
        ELSE CASE o = "+" -> Num(x.v + y.v)
               [] o = "-" -> Num(x.v - y.v)
               [] o = "*" -> Num(x.v * y.v)
               [] o = "/" ->
                     IF y.v = 0 THEN Unsupported
                     ELSE IF Abs(x.v) % Abs(y.v) # 0 THEN Unsupported
                     ELSE Num((IF (x.v < 0) = (y.v < 0) THEN 1 ELSE -1)
                              * (Abs(x.v) \div Abs(y.v)))
               [] o = "%" ->
                     IF y.v = 0 THEN NaN
                     ELSE Num((IF x.v < 0 THEN -1 ELSE 1) * (Abs(x.v) % Abs(y.v)))

Relational(o, a, b) ==
    IF a.t = "str" /\ b.t = "str"
    THEN IF a.v = b.v THEN Bool(o \in {<<"<", "=">>, <<">", "=">>}) ELSE Unsupported
    ELSE LET x == ToNumber(a)
             y == ToNumber(b)
         IN  IF x.t = "unsupported" \/ y.t = "unsupported" THEN Unsupported
             ELSE IF x.t = "nan" \/ y.t = "nan" THEN Bool(FALSE)
             ELSE CASE o = <<"<">> -> Bool(x.v < y.v)
                    [] o = <<"<", "=">> -> Bool(x.v <= y.v)
                    [] o = <<">">> -> Bool(x.v > y.v)
                    [] o = <<">", "=">> -> Bool(x.v >= y.v)

\* a == b
LooseEquals(a, b) ==
    IF a.t \in {"obj", "fn", "unsupported"} \/ b.t \in {"obj", "fn", "unsupported"}
    THEN IF (a.t = "undefined" /\ b.t \in {"obj", "fn"}) \/ (b.t = "undefined" /\ a.t \in {"obj", "fn"})
         THEN Bool(FALSE)
         ELSE Unsupported
    ELSE IF a.t = "nan" \/ b.t = "nan" THEN Bool(FALSE)
    ELSE IF a.t = "undefined" \/ b.t = "undefined" THEN Bool(a.t = b.t)
    ELSE IF a.t = b.t THEN Bool(a.v = b.v)
    ELSE LET x == ToNumber(a)
             y == ToNumber(b)
         IN  IF x.t = "unsupported" \/ y.t = "unsupported" THEN Unsupported
             ELSE IF x.t = "nan" \/ y.t = "nan" THEN Bool(FALSE)
             ELSE Bool(x.v = y.v)

BinaryOperation(o, a, b) ==
    CASE o = <<"+">> ->
            IF a.t = "str" \/ b.t = "str"
            THEN LET x == ToText(a)
                     y == ToText(b)
                 IN  IF x.t = "unsupported" \/ y.t = "unsupported" THEN Unsupported
                     ELSE Text(x.v \o y.v)
            ELSE IF a.t \in {"obj", "fn"} \/ b.t \in {"obj", "fn"} THEN Unsupported
            ELSE Arithmetic("+", a, b)
      [] o \in {<<"-">>, <<"*">>, <<"/">>, <<"%">>, <<"&">>, <<"|">>} -> Arithmetic(o[1], a, b)
      [] OperatorLevel(o) = 6 -> Relational(o, a, b)
      [] o = <<"=", "=">> -> LooseEquals(a, b)
      [] o = <<"!", "=">> ->
            LET e == LooseEquals(a, b)
            IN  IF e.t = "unsupported" THEN e ELSE Bool(~e.v)

\* the result of calling a function of the caller's table
Apply(function, args) ==
    IF function.v.kind = "const" THEN function.v.val
    ELSE IF args = <<>> THEN Undefined ELSE args[1]

Checked(value) == IF value.t = "unsupported" THEN Thrown("Unsupported", -1) ELSE Returned(value)

RECURSIVE Eval(_, _)
RECURSIVE EvalArguments(_, _, _)

EvalArguments(nodes, this, done) ==
    IF nodes = <<>> THEN Returned(done)
    ELSE LET a == Eval(Head(nodes), this)
         IN  IF ~a.ok THEN a ELSE EvalArguments(Tail(nodes), this, Append(done, a.val))

\* the value of a tree with `this` bound, or the error its evaluation throws
Eval(node, this) ==
    CASE node.k = "num" -> Returned(Num(node.n))
      [] node.k = "str" -> Returned(Text(node.s))
      [] node.k = "id" ->
            CASE node.s = <<"t", "h", "i", "s">> -> Returned(this)
              [] node.s = <<"t", "r", "u", "e">> -> Returned(Bool(TRUE))
              [] node.s = <<"f", "a", "l", "s", "e">> -> Returned(Bool(FALSE))
              [] node.s = <<"u", "n", "d", "e", "f", "i", "n", "e", "d">> -> Returned(Undefined)
              [] node.s = <<"N", "a", "N">> -> Returned(NaN)
              [] OTHER -> Thrown("ReferenceError", -1)
      [] node.k = "un" ->
            LET e == Eval(node.e, this)
            IN  IF ~e.ok THEN e
                ELSE IF node.o = <<"!">> THEN Returned(Bool(~Truthy(e.val)))
                ELSE IF node.o = <<"+">> THEN Checked(ToNumber(e.val))
                ELSE Checked(Arithmetic("-", Num(0), e.val))
      [] node.k = "bin" ->
            LET l == Eval(node.l, this)
            IN  IF ~l.ok THEN l
                ELSE IF node.o = <<"&", "&">>
                THEN IF Truthy(l.val) THEN Eval(node.r, this) ELSE l
                ELSE IF node.o = <<"|", "|">>
                THEN IF Truthy(l.val) THEN l ELSE Eval(node.r, this)
                ELSE LET r == Eval(node.r, this)
                     IN  IF ~r.ok THEN r ELSE Checked(BinaryOperation(node.o, l.val, r.val))
      [] node.k = "get" ->
            LET e == Eval(node.e, this)
            IN  IF ~e.ok THEN e
                ELSE LET key == Eval(node.key, this)
                     IN  IF ~key.ok THEN key
                         ELSE IF PropertyThrows(e.val) THEN Thrown("TypeError", -1)
                         ELSE IF ToText(key.val).t = "unsupported" THEN Thrown("Unsupported", -1)
                         ELSE Returned(Property(e.val, ToText(key.val).v))
      [] node.k = "call" ->
            LET e == Eval(node.e, this)
            IN  IF ~e.ok THEN e
                ELSE LET args == EvalArguments(node.args, this, <<>>)
                     IN  IF ~args.ok THEN args
                         ELSE IF e.val.t # "fn" THEN Thrown("TypeError", -1)
                         ELSE Checked(Apply(e.val, args.val))
      [] node.k = "if" ->
            LET a == Eval(node.a, this)
            IN  IF ~a.ok THEN a
                ELSE IF Truthy(a.val) THEN Eval(node.c, this) ELSE Eval(node.o, this)

\* `this` of a compiled constraint
This(model, state, functions) ==
    Object((<<"m", "o", "d", "e", "l">> :> model) @@ (<<"s", "t", "a", "t", "e">> :> state) @@ (<<"f", "u", "n", "c", "t", "i", "o", "n", "s">> :> functions))

\* calling the function made of functionString
Evaluate(functionString, model, state, functions) ==
    LET toks == JsLex(functionString)
        body == ParseFunctionBody(toks.val)
    IN  IF ~toks.ok THEN Thrown(toks.err, -1)
        ELSE IF ~body.ok THEN Thrown(body.err, -1)
        ELSE Eval(body.node, This(model, state, functions))

\* the value of an expression text with `this` bound
EvaluateExpression(text, model, state, functions) ==
    LET e == ParseExpressionText(text)
    IN  IF ~e.ok THEN Thrown(e.err, -1)
        ELSE Eval(e.node, This(model, state, functions))

-----------------------------------------------------------------------------
(* The constraint assembler                                                *)

S_true == <<"t", "r", "u", "e">>
S_false == <<"f", "a", "l", "s", "e">>

\* the text generateFunction builds of the two compiled strings
FunctionString(activationString, conditionString) ==
    <<"i", "f", "(">> \o activationString \o <<")", "{", "r", "e", "t", "u", "r", "n", "(">> \o conditionString
        \o <<")", ";", "}", "e", "l", "s", "e", "{", "r", "e", "t", "u", "r", "n", "(", "t", "r", "u", "e", ")", ";", "}">>

\* the activation string of generateFunction for a trimmed activation token
ActivationString(fns, activationToken) ==
    IF startsWith(activationToken, ALWAYS) THEN Returned(S_true)
    ELSE IF startsWith(activationToken, WHEN)
    THEN generateConditionalString(fns, getSubstringWithinParentheses(activationToken))
    ELSE IF isStatementToken(fns, activationToken)
    THEN Returned(S_functionsOpen \o activationToken \o S_functionsClose \o S_activationArgs)
    ELSE Returned(S_false)

\* generateFunction: the text of the function it returns, or what it throws
generateFunction(fns, assertion) ==
    LET tokens == getSplitTokens(assertion)
    IN  IF ~tokens.ok THEN tokens
        ELSE LET activationToken == trim(tokens.val[1])
                 conditionToken == trim(tokens.val[2])
                 activationString == ActivationString(fns, activationToken)
             IN  IF ~activationString.ok THEN activationString
                 ELSE LET conditionString == generateConditionalString(fns, conditionToken)
                      IN  IF ~conditionString.ok THEN conditionString
                          ELSE generateFromString(
                                   FunctionString(activationString.val, conditionString.val))

-----------------------------------------------------------------------------
(* The message tokenizer and interpolator                                  *)

\* the loop of getClosingBracketIndex
RECURSIVE ClosingBracketFrom(_, _, _)
ClosingBracketFrom(srcString, j, numBrackets) ==
    IF j >= Len(srcString) THEN -1
    ELSE LET n == IF charAt(srcString, j) = "(" THEN numBrackets + 1
                  ELSE IF charAt(srcString, j) = ")" THEN numBrackets - 1
                  ELSE numBrackets
         IN  IF n = 0 THEN j ELSE ClosingBracketFrom(srcString, j + 1, n)

getClosingBracketIndex(openingBracketIndex, srcString) ==
    ClosingBracketFrom(srcString, openingBracketIndex + 1, 1)

\* the loop of isCharWithinFunction over the opening brackets at index j or
\* later (findAllIndicesOf): "in", "out", or "throw" for its 'Syntax error
\* in function'
RECURSIVE WithinFunctionFrom(_, _, _)
WithinFunctionFrom(srcString, charIndex, j) ==
    LET openingBracketIndex == indexOfFrom(srcString, "(", j)
    IN  IF openingBracketIndex = -1 THEN "out"
        ELSE IF openingBracketIndex = 0
                \/ ~IsWordChar(charAt(srcString, openingBracketIndex - 1))
        THEN WithinFunctionFrom(srcString, charIndex, openingBracketIndex + 1)
        ELSE LET closingBracketIndex == getClosingBracketIndex(openingBracketIndex, srcString)
             IN  IF closingBracketIndex = -1 THEN "throw"
                 ELSE IF charIndex > openingBracketIndex /\ charIndex < closingBracketIndex
                 THEN "in"
                 ELSE WithinFunctionFrom(srcString, charIndex, openingBracketIndex + 1)

isCharWithinFunction(srcString, charIndex) ==
    IF \/ charIndex = 0
       \/ charIndex = Len(srcString) - 1
       \/ charAt(srcString, charIndex) \in {"(", ")"}
    THEN "out"
    ELSE WithinFunctionFrom(srcString, charIndex, 0)

\* cutRemainderUntilCharMatches for a character class
RECURSIVE CutRemainderFrom(_, _, _)
CutRemainderFrom(srcString, endIndex, class) ==
    IF ~(charAt(srcString, endIndex) \in class) /\ endIndex > 0
    THEN CutRemainderFrom(srcString, endIndex - 1, class)
    ELSE substring(srcString, 0, endIndex + 1)

cutRemainderUntilCharMatches(srcString, class) ==
    CutRemainderFrom(srcString, Len(srcString) - 1, class)

\* cutFrontUntilCharMatches for a character class
RECURSIVE CutFrontFrom(_, _, _)
CutFrontFrom(srcString, startIndex, class) ==
    IF ~(charAt(srcString, startIndex) \in class) /\ startIndex < Len(srcString) - 1
    THEN CutFrontFrom(srcString, startIndex + 1, class)
    ELSE substringFrom(srcString, startIndex)

cutFrontUntilCharMatches(srcString, class) == CutFrontFrom(srcString, 0, class)

WordChars == Letters \cup Digits \cup {"_"}

\* one iteration of the first loop of getMessageTokens at index i: the
\* token start and the tokens after it, or the error isCharWithinFunction
\* throws
MessageTokenStep(srcString, i, tokenStart, res) ==
    LET char == charAt(srcString, i)
        nextChar == charAt(srcString, i + 1)
        wordStart == IsSpace(char) /\ ~IsSpace(nextChar)
        wordEnd == ~IsSpace(char) /\ IsSpace(nextChar)
        within == isCharWithinFunction(srcString, i)
        start == IF wordStart /\ within = "out" THEN i + 1 ELSE tokenStart
        ended == IF wordEnd /\ within = "out"
                 THEN Append(res, substring(srcString, start, i + 1))
                 ELSE res
        pushed == IF i = Len(srcString) - 2
                  THEN Append(ended, substring(srcString, start, i + 2))
                  ELSE ended
    IN  [thrown |-> (wordStart \/ wordEnd) /\ within = "throw",
         tokenStart |-> start, res |-> pushed]

\* the first loop of getMessageTokens: the raw tokens, or the error
RECURSIVE RawMessageTokens(_, _, _, _)
RawMessageTokens(srcString, i, tokenStart, res) ==
    IF i >= Len(srcString) - 1 THEN Returned(res)
    ELSE LET step == MessageTokenStep(srcString, i, tokenStart, res)
         IN  IF step.thrown THEN Thrown("SyntaxErrorInFunction", -1)
             ELSE RawMessageTokens(srcString, i + 1, step.tokenStart, step.res)

\* the second loop of getMessageTokens: a token trimmed to its reference
TrimMessageToken(fns, token) ==
    IF isStatementToken(fns, token) THEN cutRemainderUntilCharMatches(token, WordChars)
    ELSE IF isFunctionToken(fns, token) THEN cutRemainderUntilCharMatches(token, {")"})
    ELSE IF includes(token, MODEL_PREFIX)
    THEN cutFrontUntilCharMatches(cutRemainderUntilCharMatches(token, WordChars), {MODEL_PREFIX})
    ELSE IF includes(token, STATE_PREFIX)
    THEN cutFrontUntilCharMatches(cutRemainderUntilCharMatches(token, WordChars), {STATE_PREFIX})
    ELSE token

getMessageTokens(fns, srcString) ==
    LET raw == RawMessageTokens(srcString, 0, 0, <<>>)
    IN  IF ~raw.ok THEN raw
        ELSE Returned([i \in 1..Len(raw.val) |-> TrimMessageToken(fns, raw.val[i])])

\* getFilteredTokenArray: the tokens with the prefix, the prefix removed
getFilteredTokenArray(tokens, tokenPrefix) ==
    LET kept == SelectSeq(tokens, LAMBDA token : startsWith(token, <<tokenPrefix>>))
    IN  [i \in 1..Len(kept) |-> Tail(kept[i])]

\* the first index of `pattern` in `s` from i on, -1 when there is none
FindFrom(s, pattern, i) ==
    LET found == {j \in i..(Len(s) - Len(pattern)) :
                     SubSeq(s, j + 1, j + Len(pattern)) = pattern}
    IN  IF found = {} THEN -1 ELSE Min(found)

\* String.prototype.replace(pattern, replacement) for a string pattern and
\* a replacement text without '$': the first occurrence is replaced
ReplaceFirst(s, pattern, replacement) ==
    LET i == FindFrom(s, pattern, 0)
    IN  IF i = -1 THEN s
        ELSE substring(s, 0, i) \o replacement \o substringFrom(s, i + Len(pattern))

\* Number.parseFloat of a text: the digits it starts with
parseFloat(s) ==
    LET e == RunEnd(s, 0, Digits)
    IN  IF e = 0
        THEN (IF charAt(s, 0) \in {"+", "-", ".", "I", " "} THEN Unsupported ELSE NaN)
        ELSE IF charAt(s, e) \in {".", "e", "E"} THEN Unsupported
        ELSE Num(DigitsValue(substring(s, 0, e)))

\* functions[name](...args): Returned(value), or the TypeError of calling
\* what is not a function
CallByName(functions, name, args) ==
    LET f == Property(functions, name)
    IN  IF f.t # "fn" THEN Thrown("TypeError", -1) ELSE Returned(Apply(f, args))

RECURSIVE evaluateFunction(_, _, _, _, _)
RECURSIVE EvaluateArgs(_, _, _, _, _, _)

\* the loop of evaluateFunction over the argument strings
EvaluateArgs(fns, argsStrings, model, state, functions, args) ==
    IF argsStrings = <<>> THEN Returned(args)
    ELSE LET argsString == Head(argsStrings)
             rest == Tail(argsStrings)
         IN  IF isStatementToken(fns, argsString)
             THEN LET r == CallByName(functions, argsString, <<model, state>>)
                  IN  IF ~r.ok THEN r
                      ELSE EvaluateArgs(fns, rest, model, state, functions, Append(args, r.val))
             ELSE IF isFunctionToken(fns, argsString)
             THEN LET r == evaluateFunction(fns, argsString, model, state, functions)
                  IN  IF ~r.ok THEN r
                      ELSE EvaluateArgs(fns, rest, model, state, functions, Append(args, r.val))
             ELSE IF isModelVariable(argsString)
             THEN EvaluateArgs(fns, rest, model, state, functions,
                      Append(args, getObjectValue(model, Tail(argsString))))
             ELSE IF isStateVariable(argsString)
             THEN EvaluateArgs(fns, rest, model, state, functions,
                      Append(args, getObjectValue(state, Tail(argsString))))
             ELSE IF isString(argsString)
             THEN EvaluateArgs(fns, rest, model, state, functions,
                      Append(args, Text(SelectSeq(argsString, LAMBDA c : c # STRING_SYMBOL))))
             ELSE IF isNumberString(argsString)
             THEN EvaluateArgs(fns, rest, model, state, functions,
                      Append(args, parseFloat(argsString)))
             ELSE EvaluateArgs(fns, rest, model, state, functions, args)

evaluateFunction(fns, token, model, state, functions) ==
    LET functionName == split(token, "(")[1]
        functionArgs == getSubstringWithinParentheses(token)
        argsStrings == getFunctionArgs(functionArgs)
        args == EvaluateArgs(fns, argsStrings, model, state, functions, <<>>)
    IN  IF ~args.ok THEN args ELSE CallByName(functions, functionName, args.val)

\* the two loops of getMessage over the model keys and the state keys
RECURSIVE ReplaceKeys(_, _, _, _)
ReplaceKeys(message, keys, prefix, object) ==
    IF keys = <<>> THEN message
    ELSE ReplaceKeys(
             ReplaceFirst(message, <<prefix>> \o Head(keys),
                          ToText(getObjectValue(object, Head(keys))).v),
             Tail(keys), prefix, object)

\* the loop of getMessage over the tokens
RECURSIVE ReplaceCalls(_, _, _, _, _, _)
ReplaceCalls(fns, message, tokens, model, state, functions) ==
    IF tokens = <<>> THEN Returned(message)
    ELSE LET token == Head(tokens)
             value == IF isStatementToken(fns, token)
                      THEN CallByName(functions, token, <<model, state>>)
                      ELSE evaluateFunction(fns, token, model, state, functions)
         IN  IF ~isFunctionToken(fns, token)
             THEN ReplaceCalls(fns, message, Tail(tokens), model, state, functions)
             ELSE IF ~value.ok THEN value
             ELSE IF ToText(value.val).t = "unsupported" THEN Thrown("Unsupported", -1)
             ELSE ReplaceCalls(fns, ReplaceFirst(message, token, ToText(value.val).v),
                               Tail(tokens), model, state, functions)

getMessage(fns, msgString, model, state, functions) ==
    LET tokens == getMessageTokens(fns, msgString)
    IN  IF ~tokens.ok THEN tokens
        ELSE LET modelKeys == getFilteredTokenArray(tokens.val, MODEL_PREFIX)
                 stateKeys == getFilteredTokenArray(tokens.val, STATE_PREFIX)
                 afterModel == ReplaceKeys(msgString, modelKeys, MODEL_PREFIX, model)
                 afterState == ReplaceKeys(afterModel, stateKeys, STATE_PREFIX, state)
             IN  ReplaceCalls(fns, afterState, tokens.val, model, state, functions)

-----------------------------------------------------------------------------
(* Bounds and inputs                                                       *)

\* the longest string handed to getSplitTokens
MaxSplitLen == 5
\* the most atoms a generated condition is made of
MaxAtoms == 3
\* the most segments of a path handed to getObjectValue
MaxSegments == 3
\* the most words of a message template
MaxWords == 3

\* the strings over `alphabet` of length 0..n
RECURSIVE Strings(_, _)
Strings(alphabet, n) ==
    IF n = 0 THEN {<<>>}
    ELSE LET shorter == Strings(alphabet, n - 1)
         IN  shorter \cup {Append(s, c) : s \in shorter, c \in alphabet}

\* the concatenations of 1..n elements of `atoms`
RECURSIVE Phrases(_, _)
Phrases(atoms, n) ==
    IF n <= 1 THEN atoms
    ELSE LET shorter == Phrases(atoms, n - 1)
         IN  shorter \cup {p \o a : p \in shorter, a \in atoms}

\* the elements of `words` joined by single spaces, 1..n of them
RECURSIVE Sentences(_, _)
Sentences(words, n) ==
    IF n <= 1 THEN words
    ELSE LET shorter == Sentences(words, n - 1)
         IN  shorter \cup {p \o <<" ">> \o w : p \in shorter, w \in words}

\* names a caller may register
N_f == <<"f">>
N_g == <<"g">>
N_ok == <<"o", "k">>
N_sum == <<"s", "u", "m">>
FunctionNames == {N_f, N_g, N_ok, N_sum}
CompilerNames == {N_f}
MessageNames == {N_f, N_ok}

\* getSplitTokens: every string of separators, quotes and letters
SplitAlphabet == {":", "'", "a"}
SplitInputs == Strings(SplitAlphabet, MaxSplitLen)

\* generateFunction: activations and conditions
Activations ==
    {ALWAYS, <<"W", "H", "E", "N", "(", "1", "=", "=", "2", ")">>, <<"W", "H", "E", "N", "(", "$", "a", "=", "=", "1", ")">>, N_f, <<"x">>}

ConditionAtoms ==
    {<<"1">>, <<"$", "a">>, <<"'", "a", "'">>, <<"'", "a">>, N_f, <<"f", "x">>, <<"(">>, <<")">>,
     <<"=", "=">>, <<"=">>, <<"&">>, <<"+">>, <<":">>}

CuratedConditions ==
    {<<"f", "(", "1", "+", "$", "a", ")">>, <<"f", "(", "$", "a", "*", "2", ")">>, <<"f", "(", "(", "$", "a", "+", "1", ")", ")">>, <<"f", "(", "f", "(", "1", ")", ")">>, <<"f", "(", "1", ",", "$", "a", ")">>,
     <<"$", "a", ".", "b", " ", "=", "=", " ", "5">>, <<"$", "a", ".", "c", " ", "=", "=", " ", "5">>, <<"$", "x", ".", "y", " ", "=", "=", " ", "5">>,
     <<"'", "x", ":", "(", "'", "+", "f", "(", "'", "+", "$", "a", ")">>, <<"'", "a", ":", "b", "'", " ", "=", "=", " ", "'", "a", ":", "b", "'">>,
     <<"2", " ", "+", " ", "3", " ", "*", " ", "4", " ", "=", "=", " ", "1", "4">>, <<"1", "&", "&", "1">>, <<"1", "|", "|", "0">>, <<"f", "(", "'", "a", ")">>, <<"f", "(", "1">>}

Conditions == Phrases(ConditionAtoms, MaxAtoms) \cup CuratedConditions

\* generateConditionalString step by step: expressions of a few atoms, and
\* expressions with paths and calls next to brackets and operators
MaxExpressionAtoms == 2
ExpressionAtoms ==
    {<<"$">>, <<"$", "a">>, <<"f">>, <<"(">>, <<")">>, <<"1">>, <<"&", "&">>, <<"'", "a">>}
CuratedExpressions ==
    {<<"(", "f", ")">>, <<"(", "f", ")", "&", "&", "f", "(", "1", ")">>, <<"f", "(", "f", "(", "1", ")", ")">>, <<"f", "(", "(", "1", ")", ")", "&", "&", "1">>, <<"f", "(", "f", "(", "1", ")", ",", "$", "a", ")", "=", "=", "1">>, <<"f", "x", "+", "1">>,
     <<"$", "a", ".", "b", ")">>, <<"(", "$", "a", ".", "b", ")">>, <<"$", "a", ".", "b", " ", "=", "=", " ", "1">>, <<"#", "c", "+", "1">>, <<"1", "+", "#">>, <<"$", "a", ".", "b">>, <<"'", "a", "'", " ", "+", " ", "'", "a", "'">>}
\* string literals with whitespace, separators and brackets between the
\* quotes, alone and as the argument of a call
Literals ==
    {<<"'", "a", "'">>, <<"'", "a", " ", "b", "'">>, <<"'", "a", ":", "b", "'">>, <<"'", "a", ",", "b", "'">>, <<"'", "(", "a", ")", "'">>, <<"'", "a", ")", " ", "(", "b", "'">>}
LiteralExpressions ==
    Literals \cup {N_f \o <<BRACKET_OPEN>> \o literal \o <<BRACKET_CLOSE>> : literal \in Literals}
Expressions ==
    Phrases(ExpressionAtoms, MaxExpressionAtoms) \cup CuratedExpressions
        \cup LiteralExpressions \cup {<<>>}

\* getMessageTokens: templates of words and calls with whitespace in their
\* argument lists
MaxCallWords == 2
CallNames == {N_f, N_g}
CallWords ==
    {<<"x">>, <<"f", "(", "a", ")">>, <<"f", "(", "a", ",", " ", "1", ")">>, <<"g", "(", " ", "b", " ", ")">>}
CallTemplates ==
    Sentences(CallWords, MaxCallWords)
        \cup {<<"f", "(", "g", "(", "b", ")", " ", "c", ")">>,
              <<"f", "(", "a", ",", " ", "g", "(", "b", ")", " ", "c", ")">>,
              <<"x", " ", "f", "(", "a", ",", " ", "g", "(", "b", ")", " ", "c", ")", " ", "y">>}

\* getFunctionArgs: argument strings over a small alphabet, and the
\* arguments of a nested call
MaxArgsLen == 4
ArgsAlphabet == {"a", ",", "(", ")", " "}
ArgStrings == Strings(ArgsAlphabet, MaxArgsLen) \cup {<<"m", "u", "l", "(", "2", ",", "3", ")", ",", "4">>, <<"m", "u", "l", "(", "2", ",", "3", ")", ",", " ", "4">>, <<"a", ",", "f", "(", "a", ",", "(", "a", ")", ")", ",", "a">>}

\* models, states and function tables of a caller
M_ab5 == Object(<<"a">> :> Object(<<"b">> :> Num(5)))
M_a1 == Object(<<"a">> :> Num(1))
S_c7 == Object(<<"c">> :> Num(7))
Models == <<M_ab5, M_a1>>
States == <<S_c7>>
FunctionTables ==
    <<Object((N_f :> FirstArgFn) @@ (N_ok :> ConstFn(Text(<<"Y">>)))),
      Object((N_f :> ConstFn(Bool(FALSE))) @@ (N_ok :> ConstFn(Num(0))))>>

\* getObjectValue: paths of keys, some present and some missing
PathKeys == {<<"a">>, <<"b">>, <<"x">>}
RECURSIVE Paths(_)
Paths(n) ==
    IF n <= 1 THEN PathKeys
    ELSE LET shorter == Paths(n - 1)
         IN  shorter \cup {p \o <<".">> \o k : p \in shorter, k \in PathKeys}
M_abx == Object(<<"a">> :> Object(<<"b">> :> Object(<<"x">> :> Text(<<"v">>))))
Contexts == <<M_ab5, M_a1, M_abx, Undefined, Num(3)>>

\* getMessage: the words of a template
TemplateWords ==
    {<<"$", "a">>, <<"$", "a", ".", "b">>, <<"#", "c">>, N_ok, N_f, <<"f", "(", "1", ")">>, <<"l", "o", "o", "k">>, <<"i", "s">>}
Templates == Sentences(TemplateWords, MaxWords)

-----------------------------------------------------------------------------
(* The state machine: a caller runs one operation at a time on the         *)
(* generator and takes its outcome before the next.                        *)

Idle == [ok |-> TRUE, val |-> <<>>, err |-> "none", index |-> -1]

Init ==
    /\ customFunctions = <<>>
    /\ op = "idle"
    /\ arg = <<>>
    /\ ret = Idle

RegisterFunction(names) ==
    /\ op = "idle"
    /\ \E name \in names :
          LET done == registerFunction(customFunctions, name)
          IN  /\ customFunctions' = done.fns
              /\ op' = "registerFunction"
              /\ arg' = name
              /\ ret' = done.ret

GetSplitTokens ==
    /\ op = "idle"
    /\ \E srcString \in SplitInputs :
          /\ op' = "getSplitTokens"
          /\ arg' = srcString
          /\ ret' = getSplitTokens(srcString)
    /\ UNCHANGED customFunctions

GenerateFunction ==
    /\ op = "idle"
    /\ \E activation \in Activations, expr \in Conditions :
          LET assertion == activation \o <<COND_SEPARATOR>> \o expr
          IN  /\ op' = "generateFunction"
              /\ arg' = [activation |-> activation, expr |-> expr, assertion |-> assertion]
              /\ ret' = generateFunction(customFunctions, assertion)
    /\ UNCHANGED customFunctions

\* a compiled constraint is evaluated on a model, a state and a table
EvaluateConstraint ==
    /\ op = "generateFunction"
    /\ ret.ok
    /\ \E m \in DOMAIN Models, s \in DOMAIN States, f \in DOMAIN FunctionTables :
          /\ op' = "evaluate"
          /\ arg' = [activation |-> arg.activation, expr |-> arg.expr,
                     assertion |-> arg.assertion, function |-> ret.val,
                     model |-> Models[m], state |-> States[s],
                     functions |-> FunctionTables[f]]
          /\ ret' = Evaluate(ret.val, Models[m], States[s], FunctionTables[f])
    /\ UNCHANGED customFunctions

GetObjectValue ==
    /\ op = "idle"
    /\ \E o \in DOMAIN Contexts, keyChain \in Paths(MaxSegments) \cup {<<>>} :
          /\ op' = "getObjectValue"
          /\ arg' = [object |-> Contexts[o], keyChain |-> keyChain]
          /\ ret' = Returned(getObjectValue(Contexts[o], keyChain))
    /\ UNCHANGED customFunctions

GetMessage ==
    /\ op = "idle"
    /\ \E msgString \in Templates, m \in DOMAIN Models, s \in DOMAIN States,
          f \in DOMAIN FunctionTables :
          /\ op' = "getMessage"
          /\ arg' = [msgString |-> msgString, model |-> Models[m],
                     state |-> States[s], functions |-> FunctionTables[f]]
          /\ ret' = getMessage(customFunctions, msgString, Models[m], States[s],
                               FunctionTables[f])
    /\ UNCHANGED customFunctions

\* the caller takes the outcome
Done ==
    /\ op \notin {"idle", "while"}
    /\ op' = "idle"
    /\ arg' = <<>>
    /\ ret' = Idle
    /\ UNCHANGED customFunctions

\* the registry alone, over every name
NextRegistry == RegisterFunction(FunctionNames) \/ Done
SpecRegistry == Init /\ [][NextRegistry]_vars

\* the assertion splitter
NextSplit == GetSplitTokens \/ Done
SpecSplit == Init /\ [][NextSplit]_vars

\* the compiler and the constraints it makes
NextCompiler ==
    \/ RegisterFunction(CompilerNames)
    \/ GenerateFunction
    \/ EvaluateConstraint
    \/ Done
SpecCompiler == Init /\ [][NextCompiler]_vars

\* path resolution
NextObject == GetObjectValue \/ Done
SpecObject == Init /\ [][NextObject]_vars

\* message rendering
NextMessage == RegisterFunction(MessageNames) \/ GetMessage \/ Done
SpecMessage == Init /\ [][NextMessage]_vars

\* generateConditionalString is entered: the loop's variables are set
StartConditionalString ==
    /\ op = "idle"
    /\ \E data \in Expressions :
          /\ op' = "while"
          /\ arg' = WhileStart(data)
          /\ ret' = Idle
    /\ UNCHANGED customFunctions

\* one iteration of its while loop; the last one returns or throws
WhileStep ==
    /\ op = "while"
    /\ LET step == WhileIteration(customFunctions, arg)
       IN  /\ op' = IF step.done THEN "generateConditionalString" ELSE "while"
           /\ arg' = step.loop
           /\ ret' = step.ret
    /\ UNCHANGED customFunctions

\* the expression tokenizer, one loop iteration at a time
NextTokenizer ==
    \/ RegisterFunction(CompilerNames)
    \/ StartConditionalString
    \/ WhileStep
    \/ Done
SpecTokenizer == Init /\ [][NextTokenizer]_vars

GetMessageTokens ==
    /\ op = "idle"
    /\ \E srcString \in CallTemplates :
          /\ op' = "getMessageTokens"
          /\ arg' = srcString
          /\ ret' = getMessageTokens(customFunctions, srcString)
    /\ UNCHANGED customFunctions

\* the message tokenizer
NextMessageTokens == RegisterFunction(CallNames) \/ GetMessageTokens \/ Done
SpecMessageTokens == Init /\ [][NextMessageTokens]_vars

GetFunctionArgs ==
    /\ op = "idle"
    /\ \E argString \in ArgStrings :
          /\ op' = "getFunctionArgs"
          /\ arg' = argString
          /\ ret' = Returned(getFunctionArgs(argString))
    /\ UNCHANGED customFunctions

\* the splitter of argument lists
NextFunctionArgs == GetFunctionArgs \/ Done
SpecFunctionArgs == Init /\ [][NextFunctionArgs]_vars

\* every operation, over the registries of a single name
Next ==
    \/ RegisterFunction(CompilerNames)
    \/ GetSplitTokens
    \/ GenerateFunction
    \/ EvaluateConstraint
    \/ GetObjectValue
    \/ GetMessage
    \/ StartConditionalString
    \/ WhileStep
    \/ GetMessageTokens
    \/ GetFunctionArgs
    \/ Done

Spec == Init /\ [][Next]_vars

-----------------------------------------------------------------------------
(* Properties                                                              *)

\* two values of the host language are the same value
SameValue(a, b) == a.t = b.t /\ a.v = b.v

\* two outcomes are the same: the same value returned, or the same kind of
\* error thrown
SameOutcome(x, y) ==
    /\ x.ok = y.ok
    /\ x.ok => SameValue(x.val, y.val)
    /\ ~x.ok => x.err = y.err

NoDuplicates(seq) == \A i, j \in 1..Len(seq) : seq[i] = seq[j] => i = j

\* C3: the registry holds every name at most once and never loses a name; a
\* registerFunction call with a name already present fails with the
\* duplicate-registration error and leaves the registry unchanged, and a
\* call with a new name appends exactly that name after the existing ones.
C3_RegistryStep ==
    /\ NoDuplicates(customFunctions')
    /\ Len(customFunctions') >= Len(customFunctions)
    /\ SubSeq(customFunctions', 1, Len(customFunctions)) = customFunctions
    /\ op' = "registerFunction" =>
          IF arg' \in Range(customFunctions)
          THEN /\ ~ret'.ok
               /\ ret'.err = "AlreadyRegistered"
               /\ customFunctions' = customFunctions
          ELSE /\ ret'.ok
               /\ customFunctions' = Append(customFunctions, arg')
C3_RegistryKeepsEveryNameOnce == [][C3_RegistryStep]_vars

\* a registration of a name already present, with another name registered
\* besides it, has just failed
C3_DuplicateRejected ==
    /\ op = "registerFunction"
    /\ ~ret.ok
    /\ Len(customFunctions) >= 2
    /\ arg \in Range(customFunctions)

\* the number of quotes of s at indices below i
QuotesBefore(s, i) == Cardinality({j \in 0..(i - 1) : charAt(s, j) = STRING_SYMBOL})

\* index i of s lies inside a string literal: between a quote that opens a
\* literal and the quote that closes it
InsideLiteral(s, i) ==
    /\ QuotesBefore(s, i) % 2 = 1
    /\ \E j \in (i + 1)..(Len(s) - 1) : charAt(s, j) = STRING_SYMBOL

\* the indices of the separators of s outside every string literal
SeparatorsOutsideLiterals(s) ==
    {i \in 0..(Len(s) - 1) : charAt(s, i) = COND_SEPARATOR /\ ~InsideLiteral(s, i)}

\* C2: getSplitTokens splits an assertion at the first ':' outside every
\* string literal into the text before it and the text after it, and fails
\* exactly when the assertion has no ':' outside a string literal.
C2_SplitsAtFirstSeparatorOutsideLiterals ==
    op = "getSplitTokens" =>
       LET outside == SeparatorsOutsideLiterals(arg)
       IN  IF outside = {} THEN ~ret.ok
           ELSE /\ ret.ok
                /\ ret.val = <<substring(arg, 0, Min(outside)),
                               substringFrom(arg, Min(outside) + 1)>>

\* a witness of C2's case: a separator inside a closed string literal was
\* passed over and the split made at a later one
C2_LiteralSeparatorPassedOver ==
    /\ op = "getSplitTokens"
    /\ ret.ok
    /\ \E i \in 0..(Len(arg) - 1) :
          /\ charAt(arg, i) = COND_SEPARATOR
          /\ InsideLiteral(arg, i)
          /\ Len(ret.val[1]) > i

\* the value stored in `object` at the segments `keys`, when every segment
\* exists: [found, val]
RECURSIVE StoredAt(_, _)
StoredAt(object, keys) ==
    IF keys = <<>> THEN [found |-> TRUE, val |-> object]
    ELSE IF object.t = "obj" /\ Head(keys) \in DOMAIN object.v
    THEN StoredAt(object.v[Head(keys)], Tail(keys))
    ELSE [found |-> FALSE, val |-> Undefined]

\* what a path with a missing final segment resolves to: the model {a:{b:5}}
\* at a.c
C8_Sentinel == getObjectValue(M_ab5, <<"a", ".", "c">>)

C8_PathAssertions == {<<"A", "L", "W", "A", "Y", "S", ":", "$", "a", ".", "c", " ", "=", "=", " ", "5">>, <<"A", "L", "W", "A", "Y", "S", ":", "$", "x", ".", "y", " ", "=", "=", " ", "5">>}

\* C8: resolving a dotted path never raises; it returns the value stored at
\* the path when every segment exists and one and the same sentinel when a
\* segment is missing or the walk reaches a value that cannot be indexed;
\* and the constraints ALWAYS:$a.c == 5 and ALWAYS:$x.y == 5 evaluate to
\* false, not to an error, on the model {a:{b:5}}.
C8_MissingPathsResolveToOneSentinel ==
    /\ op = "getObjectValue" /\ arg.keyChain # <<>> =>
          LET stored == StoredAt(arg.object, split(arg.keyChain, KEY_SEPARATOR))
          IN  /\ ret.ok
              /\ IF stored.found THEN SameValue(ret.val, stored.val)
                 ELSE SameValue(ret.val, C8_Sentinel)
    /\ op = "evaluate" /\ arg.assertion \in C8_PathAssertions /\ arg.model = M_ab5 =>
          ret.ok /\ SameValue(ret.val, Bool(FALSE))

\* the kinds of error that report a syntax error of the assertion
SyntaxErrorKinds == {"InvalidSyntaxForToken", "UnableToParse", "MaxIterations", "SyntaxError"}

\* the activation forms: ALWAYS..., WHEN..., or a bare registered name
RecognizedActivation(fns, activation) ==
    \/ startsWith(activation, ALWAYS)
    \/ startsWith(activation, WHEN)
    \/ activation \in Range(fns)

\* C5: compiling an assertion whose activation token is neither a token
\* starting with ALWAYS, nor one starting with WHEN, nor a bare registered
\* name fails; no constraint is produced for it.
C5_UnrecognizedActivationFails ==
    op = "generateFunction" /\ ~RecognizedActivation(customFunctions, arg.activation)
        => ~ret.ok

\* the number of occurrences of the character c in s from index `from` up to
\* index `to`
Count(s, c, from, to) == Cardinality({j \in from..to : charAt(s, j) = c})

\* expr has a string literal that no quote closes
HasUnterminatedString(expr) == Count(expr, STRING_SYMBOL, 0, Len(expr) - 1) % 2 = 1

\* expr has a call of a registered name whose bracket depth never returns
\* to zero
HasUnclosedCall(fns, expr) ==
    /\ ~includes(expr, STRING_SYMBOL)
    /\ \E n \in 1..Len(fns), i \in 0..(Len(expr) - 1) :
          LET open == i + Len(fns[n])
          IN  /\ substring(expr, i, open + 1) = fns[n] \o <<BRACKET_OPEN>>
              /\ \A j \in open..(Len(expr) - 1) :
                    Count(expr, BRACKET_OPEN, open, j) > Count(expr, BRACKET_CLOSE, open, j)

\* C6: compiling an expression with a string literal that has no closing
\* quote, or with a call whose bracket depth never returns to zero, fails
\* with a syntax error that identifies the offending character position.
C6_UnterminatedFailsWithPosition ==
    op = "generateFunction"
    /\ (HasUnterminatedString(arg.expr) \/ HasUnclosedCall(customFunctions, arg.expr))
        => /\ ~ret.ok
           /\ ret.err \in SyntaxErrorKinds
           /\ ret.index >= 0

\* the names a function text invokes: what stands between this.functions['
\* and the next quote
InvokedNames(text) ==
    {substring(text, i + Len(S_functionsOpen),
               indexOfFrom(text, STRING_SYMBOL, i + Len(S_functionsOpen))) :
        i \in {j \in 0..(Len(text) - 1) :
                  substring(text, j, j + Len(S_functionsOpen)) = S_functionsOpen}}

\* C4: every name a compiled constraint invokes, as activation, in the
\* condition or inside call arguments, is one of the registered names; an
\* identifier that only has a registered name as a proper prefix makes the
\* compilation fail.
C4_InvokesOnlyRegisteredNames ==
    op = "generateFunction" /\ ret.ok
        => InvokedNames(ret.val) \subseteq Range(customFunctions)

\* the text of a call of `name` with the argument text `argument`
CallText(name, argument) ==
    S_functionsOpen \o name \o S_functionsClose
        \o <<BRACKET_OPEN>> \o argument \o <<BRACKET_CLOSE>>

\* expressions that are valid at top level
C9_Arguments == {<<"1", "+", "$", "a">>, <<"$", "a", "*", "2">>, <<"(", "$", "a", "+", "1", ")">>, <<"f", "(", "1", ")">>}

\* C9: an argument of a call is compiled exactly as the same expression is
\* compiled at top level: for a registered name f and a valid expression e,
\* the compiled form of f(e) is a call of f whose argument is the compiled
\* form of e.
C9_ArgumentsCompileAsExpressions ==
    \A e \in C9_Arguments :
       /\ op = "generateFunction"
       /\ arg.activation = ALWAYS
       /\ arg.expr = N_f \o <<BRACKET_OPEN>> \o e \o <<BRACKET_CLOSE>>
       /\ N_f \in Range(customFunctions)
       /\ generateConditionalString(customFunctions, e).ok
       => /\ ret.ok
          /\ ret.val = FunctionString(S_true,
                          CallText(N_f, generateConditionalString(customFunctions, e).val))

\* the operator and bracket tokens of the language
C10_Operators ==
    {<<"<">>, <<"<", "=">>, <<"=", "=">>, <<"!", "=">>, <<">", "=">>, <<">">>,
     <<"+">>, <<"-">>, <<"*">>, <<"/">>, <<"%">>, <<"(">>, <<")">>,
     <<"&", "&">>, <<"|", "|">>}

\* index i of expr holds a '&', '|', '=' or '!' that is part of none of
\* '&&', '||', '==', '!=', '<=', '>='
LoneOperatorAt(expr, i) ==
    LET c == charAt(expr, i)
        before == charAt(expr, i - 1)
        after == charAt(expr, i + 1)
    IN  \/ c \in {"&", "|"} /\ before # c /\ after # c
        \/ c = "=" /\ after # "=" /\ ~(before \in {"=", "!", "<", ">"})
        \/ c = "!" /\ after # "="

\* C10: every operator or bracket token the expression tokenizer emits is
\* one of < <= == != >= > + - * / % ( ) && ||, and a '&', '|', '=' or '!'
\* that does not form '&&', '||', '==' or '!=' with the next character makes
\* the compilation fail with a syntax error.
C10_OnlyListedOperators ==
    op = "generateFunction" /\ ~includes(arg.expr, STRING_SYMBOL) =>
       LET tokens == ExpressionTokens(customFunctions, arg.expr)
       IN  /\ tokens.ok =>
                \A n \in 1..Len(tokens.val) :
                   charAt(tokens.val[n], 0) \in OPERATOR_START
                       => tokens.val[n] \in C10_Operators
           /\ (\E i \in 0..(Len(arg.expr) - 1) : LoneOperatorAt(arg.expr, i))
                 => ~ret.ok /\ ret.err \in SyntaxErrorKinds

\* the value of an expression of the language on (model, state): the value
\* of its compiled form, when the expression compiles
ExpressionValue(fns, expr, model, state, functions) ==
    LET compiled == generateConditionalString(fns, expr)
    IN  IF ~compiled.ok THEN compiled
        ELSE EvaluateExpression(compiled.val, model, state, functions)

\* the value of an activation on (model, state)
ActivationValue(fns, activation, model, state, functions) ==
    IF startsWith(activation, ALWAYS) THEN Returned(Bool(TRUE))
    ELSE IF startsWith(activation, WHEN)
    THEN ExpressionValue(fns, getSubstringWithinParentheses(activation),
                         model, state, functions)
    ELSE CallByName(functions, activation, <<model, state>>)

\* C1: evaluating a compiled constraint yields true when the activation
\* evaluates false and exactly the value of the condition when the
\* activation evaluates true; ALWAYS:<expr> yields the value of <expr>, and
\* WHEN(<cond>):<expr> yields true whenever <cond> is false.
C1_EvaluationContract ==
    op = "evaluate" /\ RecognizedActivation(customFunctions, arg.activation) =>
       LET activation == ActivationValue(customFunctions, arg.activation,
                                         arg.model, arg.state, arg.functions)
           condition == ExpressionValue(customFunctions, arg.expr,
                                        arg.model, arg.state, arg.functions)
       IN  activation.ok /\ activation.val.t # "unsupported" =>
              IF ~Truthy(activation.val) THEN SameOutcome(ret, Returned(Bool(TRUE)))
              ELSE condition.err \in {"none", "TypeError", "ReferenceError"}
                      => SameOutcome(ret, condition)


\* a template's words rendered one by one: a `$path` word is the text of the
\* model value at path, a `#path` word the text of the state value, a
\* registered name the text of what its function returns, a call of a
\* registered name the text of what the call returns, any other word itself
Registered(fns, name) == \E i \in 1..Len(fns) : fns[i] = name

RenderedWord(fns, word, model, state, functions) ==
    IF startsWith(word, <<MODEL_PREFIX>>)
    THEN Returned(ToText(getObjectValue(model, Tail(word))))
    ELSE IF startsWith(word, <<STATE_PREFIX>>)
    THEN Returned(ToText(getObjectValue(state, Tail(word))))
    ELSE IF Registered(fns, word)
    THEN LET r == CallByName(functions, word, <<model, state>>)
         IN  IF r.ok THEN Returned(ToText(r.val)) ELSE r
    ELSE IF includes(word, "(") /\ word[Len(word)] = ")" /\ Registered(fns, split(word, "(")[1])
    THEN LET r == evaluateFunction(fns, word, model, state, functions)
         IN  IF r.ok THEN Returned(ToText(r.val)) ELSE r
    ELSE Returned(Text(word))

RenderedWords(fns, msgString, model, state, functions) ==
    LET words == split(msgString, " ")
    IN  [i \in 1..Len(words) |-> RenderedWord(fns, words[i], model, state, functions)]

RECURSIVE JoinWords(_)
JoinWords(rendered) ==
    IF Len(rendered) = 1 THEN rendered[1].val.v
    ELSE rendered[1].val.v \o <<" ">> \o JoinWords(Tail(rendered))

\* C7: getMessage returns the template with every `$path` word, `#path`
\* word, registered name and call of a registered name replaced by the text
\* of its value, and every other word unchanged
C7_EveryReferenceReplaced ==
    op = "getMessage" =>
       LET rendered == RenderedWords(customFunctions, arg.msgString, arg.model,
                                     arg.state, arg.functions)
       IN  (\A i \in 1..Len(rendered) : rendered[i].ok /\ rendered[i].val.t = "str") =>
              /\ ret.ok
              /\ ret.val = JoinWords(rendered)

\* a text of digits only, at least one
IsDigits(s) == s # <<>> /\ \A i \in 1..Len(s) : s[i] \in Digits

\* a text that as a whole matches [+-]?(\d*\.)?\d+
IsNumberLiteral(s) ==
    LET unsigned == IF s # <<>> /\ s[1] \in {"+", "-"} THEN Tail(s) ELSE s
        dot == indexOf(unsigned, ".")
    IN  IF dot = -1 THEN IsDigits(unsigned)
        ELSE /\ \A i \in 1..dot : unsigned[i] \in Digits
             /\ IsDigits(substringFrom(unsigned, dot + 1))

\* this.model or this.state, alone or followed by '.' and word characters
\* and dots
IsAccessPath(s) ==
    \E root \in {S_thisModel, S_thisState} :
       \/ s = root
       \/ /\ startsWith(s, root \o <<".">>)
          /\ \A i \in (Len(root) + 1)..Len(s) : IsWordChar(s[i]) \/ s[i] = "."

\* a quoted string literal: a quote, characters other than the quote, a quote
IsStringLiteral(s) ==
    /\ Len(s) >= 2
    /\ s[1] = STRING_SYMBOL /\ s[Len(s)] = STRING_SYMBOL
    /\ \A i \in 2..(Len(s) - 1) : s[i] # STRING_SYMBOL

\* the text the compiler emits for `token` has one of the pre-defined forms;
\* for a call, the name is registered and every argument's text has one
RECURSIVE IsPredefinedForm(_, _)
IsPredefinedForm(fns, token) ==
    LET symbol == getSymbolForToken(fns, token)
    IN  \/ symbol = <<>>
        \/ IsAccessPath(symbol)
        \/ IsStringLiteral(symbol)
        \/ IsNumberLiteral(symbol)
        \/ symbol \in OperatorSymbols
        \/ /\ symbol = S_functionsOpen \o token \o S_functionsClose \o S_statementArgs
           /\ token \in Range(fns)
        \/ /\ isFunctionToken(fns, token) /\ includes(token, BRACKET_OPEN)
           /\ split(token, BRACKET_OPEN)[1] \in Range(fns)
           /\ symbol = parseFunctionToken(fns, token)
           /\ LET args == getFunctionArgs(getSubstringWithinParentheses(token))
              IN  \A n \in 1..Len(args) : IsPredefinedForm(fns, args[n])

\* the condition generateFunction compiles for an assertion it splits
ConditionOf(assertion) == trim(getSplitTokens(assertion).val[2])

\* C11: for every assertion that compiles, every fragment of the compiled
\* condition is a this.model/this.state access path of word characters and
\* dots, a call of a registered name, a quoted string literal, a number
\* literal that as a whole matches [+-]?(\d*\.)?\d+, or one of the 15
\* operator and bracket symbols; nothing else of the assertion is copied
\* into the output.
C11_OutputOfPredefinedForms ==
    op = "generateFunction" /\ ret.ok =>
       LET tokens == ExpressionTokens(customFunctions, ConditionOf(arg.assertion))
       IN  tokens.ok /\ \A n \in 1..Len(tokens.val) :
                           IsPredefinedForm(customFunctions, tokens.val[n])

\* the loop of generateConditionalString is running, or has just been left
InLoop == op \in {"while", "generateConditionalString"}

\* C12: generateConditionalString terminates: in every iteration of its
\* loop the scan offset does not decrease and the iteration count grows
\* by one, the count never passes 1002 (a run that does not advance is ended
\* by the iteration cap's error in its 1002nd iteration), and the loop
\* returns only with the offset at or past the end of the stripped string
\* and every token non-empty.
C12_Step ==
    /\ op = "while" /\ op' = "while" =>
          /\ arg'.startIndex >= arg.startIndex
          /\ arg'.iterations = arg.iterations + 1
          /\ arg'.trimmed = arg.trimmed
    /\ op' = "while" => arg'.iterations <= MaxParsingIterations + 1
    /\ op = "while" /\ op' = "generateConditionalString" =>
          /\ arg'.iterations <= MaxParsingIterations + 2
          /\ arg.iterations = MaxParsingIterations + 1 =>
                ~ret'.ok /\ ret'.err = "MaxIterations"
          /\ ret'.ok =>
                /\ arg'.startIndex >= Len(arg'.trimmed)
                /\ \A n \in 1..Len(arg'.tokens) : arg'.tokens[n] # <<>>
C12_LoopTerminates == [][C12_Step]_vars

\* a run that stopped advancing has been ended by the cap in its 1002nd
\* iteration
C12_StuckRunEndedByCap ==
    /\ op = "generateConditionalString"
    /\ ~ret.ok /\ ret.err = "MaxIterations"
    /\ arg.iterations = MaxParsingIterations + 2
    /\ arg.startIndex < Len(arg.trimmed)

\* the index of the first character after index i that is neither a word
\* character nor '.', the length of s when there is none
PathEnd(s, i) ==
    LET stops == {j \in (i + 1)..(Len(s) - 1) : ~(IsWordChar(charAt(s, j)) \/ charAt(s, j) = ".")}
    IN  IF stops = {} THEN Len(s) ELSE Min(stops)

\* C13: the token that starts with '$' or '#' at an offset of the expression
\* ends at the first following character that is neither a word character
\* nor '.', or at the end of the string; a prefix alone, also as the last
\* character, is a token of length 1.
C13_Step ==
    op = "while" /\ charAt(arg.trimmed, arg.startIndex) \in {MODEL_PREFIX, STATE_PREFIX} =>
       LET end == PathEnd(arg.trimmed, arg.startIndex)
       IN  /\ arg'.startIndex = end
           /\ arg'.tokens = Append(arg.tokens, substring(arg.trimmed, arg.startIndex, end))
C13_AccessTokenEndsAtFirstNonPathChar == [][C13_Step]_vars

\* the index of the ')' that closes the '(' at index open by depth
\* counting, -1 when there is none
MatchingClose(s, open) ==
    LET closes == {j \in (open + 1)..(Len(s) - 1) :
                      Count(s, BRACKET_OPEN, open, j) = Count(s, BRACKET_CLOSE, open, j)}
    IN  IF closes = {} THEN -1 ELSE Min(closes)

\* the index of the first character after index i that is not a word
\* character, the length of s when there is none
WordEnd(s, i) ==
    LET stops == {j \in (i + 1)..(Len(s) - 1) : ~IsWordChar(charAt(s, j))}
    IN  IF stops = {} THEN Len(s) ELSE Min(stops)

\* the loop is at a token that starts with the registered name `name`
AtName(name) ==
    /\ op = "while"
    /\ name \in Range(customFunctions)
    /\ startsWith(substringFrom(arg.trimmed, arg.startIndex), name)

\* C14: a token that starts with a registered name directly followed by '('
\* ends just past the ')' that matches that '(' by depth counting; a name
\* that is not followed by '(' is a statement reference made of word
\* characters only, so a ')' or an operator after the name is not part of
\* the token.
C14_Step ==
    \A name \in CompilerNames :
       LET after == arg.startIndex + Len(name)
           close == MatchingClose(arg.trimmed, after)
           end == IF charAt(arg.trimmed, after) = BRACKET_OPEN THEN close + 1
                  ELSE WordEnd(arg.trimmed, arg.startIndex)
       IN  /\ AtName(name)
           /\ \/ charAt(arg.trimmed, after) = BRACKET_OPEN /\ close # -1
              \/ ~IsWordChar(charAt(arg.trimmed, after)) /\ charAt(arg.trimmed, after) # BRACKET_OPEN
           => /\ arg'.startIndex = end
              /\ arg'.tokens = Append(arg.tokens, substring(arg.trimmed, arg.startIndex, end))
C14_CallAndStatementTokenEnds == [][C14_Step]_vars

\* the bracket depth of s before index i
DepthBefore(s, i) == Count(s, BRACKET_OPEN, 0, i - 1) - Count(s, BRACKET_CLOSE, 0, i - 1)

\* the pieces of s between the indices `cuts`, in order
PiecesAt(s, cuts) ==
    LET cut(k) == IF k = 0 THEN -1
                  ELSE IF k > Cardinality(cuts) THEN Len(s)
                  ELSE CHOOSE c \in cuts : Cardinality({x \in cuts : x < c}) = k - 1
    IN  [k \in 1..(Cardinality(cuts) + 1) |-> substring(s, cut(k - 1) + 1, cut(k))]

\* the words of a template: what stands between the spaces outside every
\* bracket
TopLevelWords(s) ==
    PiecesAt(s, {i \in 0..(Len(s) - 1) : charAt(s, i) = " " /\ DepthBefore(s, i) = 0})

\* how often `x` is an element of seq
Occurrences(seq, x) == Cardinality({n \in 1..Len(seq) : seq[n] = x})

\* `part` is a piece of `whole` and not all of it
ProperFragment(part, whole) ==
    /\ part # <<>> /\ part # whole
    /\ \E i \in 0..(Len(whole) - Len(part)) : substring(whole, i, i + Len(part)) = part

\* C15: whitespace inside the argument list of a call never ends or starts
\* a token of getMessageTokens: a bracket-balanced call of a registered name
\* is exactly one token, from the name through its matching closing
\* bracket, and no token is a proper fragment of the call.
C15_CallIsOneToken ==
    op = "getMessageTokens" /\ CallNames \subseteq Range(customFunctions) =>
       LET words == TopLevelWords(arg)
       IN  /\ ret.ok
           /\ \A n \in 1..Len(words) :
                 includes(words[n], BRACKET_OPEN) =>
                    /\ Occurrences(ret.val, words[n]) = Occurrences(words, words[n])
                    /\ \A t \in 1..Len(ret.val) : ~ProperFragment(ret.val[t], words[n])

\* every ')' of s closes a '(' before it and every '(' is closed
BracketBalanced(s) ==
    /\ \A i \in 0..Len(s) : DepthBefore(s, i) >= 0
    /\ DepthBefore(s, Len(s)) = 0

\* the pieces of s between its commas outside every bracket
TopLevelArgs(s) ==
    PiecesAt(s, {i \in 0..(Len(s) - 1) : charAt(s, i) = ARG_SEPARATOR /\ DepthBefore(s, i) = 0})

\* C16: getFunctionArgs splits a bracket-balanced argument string exactly
\* at its commas outside every bracket: the arguments are the pieces between
\* those commas, joined with ',' they give back the whitespace-stripped
\* string, every argument is non-empty, and an empty string gives no
\* argument.
C16_SplitsAtTopLevelCommas ==
    op = "getFunctionArgs" /\ BracketBalanced(arg) =>
       LET stripped == stripWhitespace(arg)
       IN  IF stripped = <<>> THEN ret.val = <<>>
           ELSE /\ ret.val = TopLevelArgs(stripped)
                /\ JoinArgs(ret.val) = stripped
                /\ \A n \in 1..Len(ret.val) : ret.val[n] # <<>>

\* C17: a string literal is compiled to exactly its source text, from the
\* opening quote through the next quote, whatever characters other than the
\* quote and the backtick stand between them, both at top level of a
\* condition and as the argument of a call.
C17_LiteralCompiledVerbatim ==
    \A literal \in Literals :
       /\ (op = "generateConditionalString" /\ arg.data = literal)
             => (ret.ok /\ ret.val = literal)
       /\ (/\ op = "generateConditionalString"
           /\ arg.data = N_f \o <<BRACKET_OPEN>> \o literal \o <<BRACKET_CLOSE>>
           /\ N_f \in Range(customFunctions))
             => (ret.ok /\ ret.val = CallText(N_f, literal))

=============================================================================
